---- MODULE Spec2Model ----
(***************************************************************************)
(* Model of NnK/scanner.py: the SourceScan inversion engine (grid          *)
(* construction with its on-disk cache, per-scan data binding, scoring     *)
(* and solution extraction) together with the helpers it calls.            *)
(*                                                                         *)
(* Numbers.  The program computes in floating point.  The model computes   *)
(* exactly: angles are whole degrees, directions are integer vectors of    *)
(* length Radius, and every quotient is a reduced fraction <<n, d>> with   *)
(* d > 0; <<0, 0>> is NaN, <<1, 0>> is +inf and <<-1, 0>> is -inf.          *)
(***************************************************************************)
EXTENDS Integers, Sequences, FiniteSets, TLC

(***************************************************************************)
(* Bounds of the exploration.                                              *)
(***************************************************************************)
MaxOps == 2          \* calls made on one constructed object

Procs == {1, 2}      \* python processes sharing the grid directory

(***************************************************************************)
(* Small helpers.                                                          *)
(***************************************************************************)
Abs(x) == IF x < 0 THEN -x ELSE x

Sign(x) == IF x > 0 THEN 1 ELSE IF x < 0 THEN -1 ELSE 0

Min2(a, b) == IF a < b THEN a ELSE b

Max2(a, b) == IF a > b THEN a ELSE b

RECURSIVE Gcd(_, _)
Gcd(a, b) == IF b = 0 THEN a ELSE Gcd(b, a % b)

RECURSIVE SumSeq(_)
SumSeq(s) == IF s = <<>> THEN 0 ELSE Head(s) + SumSeq(Tail(s))

RECURSIVE Flatten(_)
Flatten(ss) == IF ss = <<>> THEN <<>> ELSE Head(ss) \o Flatten(Tail(ss))

Range(s) == {s[k] : k \in DOMAIN s}

\* a sequence given as a function, with its entries computed once
Array(s) == <<>> \o s

(***************************************************************************)
(* Strings are sequences of one-character strings, so that joining them    *)
(* is modelled by what str.join does.                                      *)
(***************************************************************************)
RECURSIVE Join(_, _)
Join(sep, strs) ==
    IF strs = <<>> THEN <<>>
    ELSE IF Len(strs) = 1 THEN Head(strs)
    ELSE Head(strs) \o sep \o Join(sep, Tail(strs))

(***************************************************************************)
(* Configurations handed to SourceScan.__init__.  Wave and component names *)
(* are strings; grids_rootdir keeps its default.                           *)
(***************************************************************************)
W_P == <<"P">>

W_S == <<"S">>

C_L == <<"L">>

C_T == <<"T">>

C_Q == <<"Q">>

C_X == <<"X">>       \* a component name vector_normal does not know

CfgDefault ==
    [waves |-> <<W_P, W_S>>, components |-> << <<C_L>>, <<C_T, C_Q>> >>,
     n_dims |-> 3, n_model |-> 1, n_obs |-> 2]

CfgRegroup ==        \* the same component names, grouped differently
    [CfgDefault EXCEPT !.components = << <<C_L, C_T>>, <<C_Q>> >>]

CfgPonly ==
    [waves |-> <<W_P>>, components |-> << <<C_L>> >>,
     n_dims |-> 3, n_model |-> 1, n_obs |-> 3]

CfgFourDims == [CfgDefault EXCEPT !.n_dims = 4]

CfgBadComp == [CfgPonly EXCEPT !.components = << <<C_X>> >>]

Configs == {CfgDefault, CfgRegroup, CfgPonly, CfgFourDims, CfgBadComp}

GridArgs == {<<>>, <<"r", "e", "s", "e", "t">>}     \* grid='' and grid='reset'

GRIDS_ROOTDIR == <<"~/.config/seismic_source_grids">>

(***************************************************************************)
(* self.file: the cache file name built from the configuration.            *)
(***************************************************************************)
FileName(cfg) ==
    GRIDS_ROOTDIR \o <<"/Wtypes_">> \o Join(<<"_">>, cfg.waves)
      \o <<".Ch_">> \o Join(<<"_">>, Flatten(cfg.components))
      \o <<".Nd_", ToString(cfg.n_dims)>>
      \o <<".Nm_", ToString(cfg.n_model)>>
      \o <<".No_", ToString(cfg.n_obs), ".npz">>

Files == {FileName(c) : c \in Configs}

(***************************************************************************)
(* Trigonometry on the angles the model uses, in degrees.                  *)
(***************************************************************************)
Mod360(a) == ((a % 360) + 360) % 360

SinDeg(a) ==
    CASE Mod360(a) = 0 -> 0 [] Mod360(a) = 90 -> 1
      [] Mod360(a) = 180 -> 0 [] Mod360(a) = 270 -> -1

CosDeg(a) == SinDeg(a + 90)

(***************************************************************************)
(* The focal sphere.  Directions are integer vectors of length Radius; the *)
(* observation grid stands for globe(n), whose points descend in z.        *)
(***************************************************************************)
Radius == 3

GlobePoints == << <<2, 1, 2>>, <<-2, 2, -1>>, <<1, -2, -2>> >>

Globe(n) == Array([k \in 1..n |-> GlobePoints[k]])

Dot(a, b) == a[1] * b[1] + a[2] * b[2] + a[3] * b[3]

ISqrt(s) == CHOOSE r \in 0..s : r * r = s

\* arctan2(y, x) and arccos(z / r) in whole degrees, on the directions used
ArcTan2Deg(y, x) ==
    IF y = 0 THEN (IF x >= 0 THEN 0 ELSE 180)
    ELSE IF x = 0 THEN (IF y > 0 THEN 90 ELSE -90)
    ELSE CASE <<y, x>> = <<1, 2>> -> 27    [] <<y, x>> = <<2, -2>> -> 135
           [] <<y, x>> = <<-2, 1>> -> -63  [] <<y, x>> = <<2, 2>> -> 45
           [] <<y, x>> = <<-2, -1>> -> -117 [] <<y, x>> = <<2, 1>> -> 63
           [] <<y, x>> = <<-1, -2>> -> -153 [] <<y, x>> = <<1, -2>> -> 153

ArcCosDeg(z, r) ==
    CASE z = 0 -> 90 [] z = r -> 0 [] z = -r -> 180
      [] <<z, r>> = <<2, 3>> -> 48   [] <<z, r>> = <<-1, 3>> -> 109
      [] <<z, r>> = <<-2, 3>> -> 132 [] <<z, r>> = <<1, 3>> -> 71

\* one direction [x, y, z] -> [azimuth, polar angle, radial distance]
cartesian_to_spherical(v) ==
    LET radius == ISqrt(Dot(v, v))
    IN  <<ArcTan2Deg(v[2], v[1]),
          IF radius = 0 THEN 90 * Sign(v[3]) ELSE ArcCosDeg(v[3], radius),
          radius>>

(***************************************************************************)
(* Moment tensors are 6-vectors (Mxx, Myy, Mzz, Mxy, Mxz, Myz).            *)
(* MomentTensor(mt).get_M(system='XYZ') is the moment-tensor library's     *)
(* conversion; for a (strike, dip, rake) triple the model takes the        *)
(* double couple of Aki & Richards, which is whole-numbered on the angles  *)
(* of the grid, and a 6-vector is taken as it is.                          *)
(***************************************************************************)
get_M(mt) ==
    IF Len(mt) = 6 THEN mt
    ELSE LET st == mt[1]  dp == mt[2]  rk == mt[3]
         IN << -(SinDeg(dp) * CosDeg(rk) * SinDeg(2 * st)
                  + SinDeg(2 * dp) * SinDeg(rk) * SinDeg(st) * SinDeg(st)),
               SinDeg(dp) * CosDeg(rk) * SinDeg(2 * st)
                  - SinDeg(2 * dp) * SinDeg(rk) * CosDeg(st) * CosDeg(st),
               SinDeg(2 * dp) * SinDeg(rk),
               SinDeg(dp) * CosDeg(rk) * CosDeg(2 * st)
                  + (SinDeg(2 * dp) * SinDeg(rk) * SinDeg(2 * st)) \div 2,
               -(CosDeg(dp) * CosDeg(rk) * CosDeg(st)
                  + CosDeg(2 * dp) * SinDeg(rk) * SinDeg(st)),
               -(CosDeg(dp) * CosDeg(rk) * SinDeg(st)
                  - CosDeg(2 * dp) * SinDeg(rk) * CosDeg(st)) >>

\* The principal axes of a flat-lying double couple (Mxz, Myz the only
\* entries): the eigenvectors (Mxz, Myz, -1) and (Mxz, Myz, 1) of the
\* tensor, as cartesian_to_spherical returns them.
p_axis(mt) == <<ArcTan2Deg(get_M(mt)[6], get_M(mt)[5]), 135, 1>>

t_axis(mt) == <<ArcTan2Deg(get_M(mt)[6], get_M(mt)[5]), 45, 1>>

\* M . g for a 6-vector M
MatVec(M, g) ==
    << M[1] * g[1] + M[4] * g[2] + M[5] * g[3],
       M[4] * g[1] + M[2] * g[2] + M[6] * g[3],
       M[5] * g[1] + M[6] * g[2] + M[3] * g[3] >>

(***************************************************************************)
(* Aki_Richards.radpat at one observation direction g of length Radius:    *)
(* the displacement times Radius^3.                                        *)
(*   P:  disp[n] = gamma[n] * sum_pq gamma[p] gamma[q] M[p,q]               *)
(*   S:  disp[n] = sum_p (gamma[n] gamma[p] - delta[n,p]) (M gamma)[p]      *)
(***************************************************************************)
Named(names) == {<<n>> : n \in names}

PNames == Named({"P", "P wave", "P-wave"})

SNames == Named({"S", "S wave", "S-wave"})

\* a P displacement that forgets the side of the source it is on
radpatOneSided(M, wave, g) ==
    LET Mg == MatVec(M, g)
        gMg == Dot(g, Mg)
    IN  CASE wave \in SNames ->
                <<g[1] * gMg - Radius * Radius * Mg[1],
                  g[2] * gMg - Radius * Radius * Mg[2],
                  g[3] * gMg - Radius * Radius * Mg[3]>>
          [] wave \in PNames ->
                <<Abs(g[1]) * gMg, Abs(g[2]) * gMg, Abs(g[3]) * gMg>>

\* the loop over the points, for the two waves it knows
radpat(M, wave, g) ==
    LET Mg == MatVec(M, g)
        gMg == Dot(g, Mg)
    IN  CASE wave \in SNames ->
                <<g[1] * gMg - Radius * Radius * Mg[1],
                  g[2] * gMg - Radius * Radius * Mg[2],
                  g[3] * gMg - Radius * Radius * Mg[3]>>
          [] wave \in PNames ->
                <<g[1] * gMg, g[2] * gMg, g[3] * gMg>>

KnownComps == {C_L, C_T, C_Q, <<"v">>}

\* vector_normal: the polarization direction at g, up to a positive factor
vector_normal(g, comp) ==
    LET pole == g[1] = 0 /\ g[2] = 0
    IN  CASE comp = C_L -> g
          [] comp = C_T -> IF pole THEN <<0, -Radius, 0>>
                           ELSE <<g[2], -g[1], 0>>
          [] comp = C_Q -> IF pole THEN <<-Radius * Sign(g[3]), 0, 0>>
                           ELSE <<-g[3] * g[1], -g[3] * g[2],
                                  g[1] * g[1] + g[2] * g[2]>>
          [] comp = <<"v">> -> <<0, 0, Radius>>

\* np.sign(x + 0.00001) on whole numbers
SignEps(x) == IF x >= 0 THEN 1 ELSE -1

\* disp_component: norm of the projection, signed by the dot product
disp_component(g, disp, comp) ==
    LET amplitude_direction == vector_normal(g, comp)
        d == Dot(disp, amplitude_direction)
    IN  Abs(d) * SignEps(d)

(***************************************************************************)
(* The mechanism grid of the constructor (n_dims = 3).                     *)
(* self.precision = ((180.**3.)/n_model)**(1/3.); in floating point the    *)
(* cube root falls just short of the whole number, so np.arange, whose     *)
(* length is ceil((stop - start)/step), also yields the point at stop.     *)
(***************************************************************************)
HalfTurn == 180

Precision(n_model) ==
    CHOOSE r \in 1..HalfTurn :
        r * r * r * n_model = HalfTurn * HalfTurn * HalfTurn

ARange(start, stop, step) ==
    Array([k \in 1..((stop - start) \div step + 1) |-> start + (k - 1) * step])

Strikes(cfg) == ARange(0, 180, Precision(cfg.n_model))

Dips(cfg) == ARange(0, 90, Precision(cfg.n_model))

Slips(cfg) == ARange(-180, 180, Precision(cfg.n_model))

\* N = np.prod(source_mechanisms.shape[:-1])
NCells(cfg) == Len(Dips(cfg)) * Len(Strikes(cfg)) * Len(Slips(cfg))

\* source_mechanisms[tuple(flat2coordinate[:, i])], i counted from 0: the
\* meshgrid has shape (dips, strikes, slips) and is unravelled in C order
MechanismAt(cfg, i) ==
    LET a == Len(Strikes(cfg))
        c == Len(Slips(cfg))
    IN  << Strikes(cfg)[((i \div c) % a) + 1],
           Dips(cfg)[(i \div (a * c)) + 1],
           Slips(cfg)[(i % c) + 1] >>

\* the (wave, component) pairs in the order of the two loops
RECURSIVE WaveComps(_, _, _)
WaveComps(waves, components, wi) ==
    IF wi > Len(waves) THEN <<>>
    ELSE Array([ci \in 1..Len(components[wi]) |->
                    <<waves[wi], components[wi][ci]>>])
           \o WaveComps(waves, components, wi + 1)

\* self.modeled_amplitudes[sm, w, c]: the amplitude at every grid direction
AmplitudeField(sm, w, c, n_obs) ==
    Array([k \in 1..n_obs |->
        disp_component(Globe(n_obs)[k], radpat(get_M(sm), w, Globe(n_obs)[k]), c)])

\* np.zeros(n) and a fraction n/d in lowest terms
Frac(n, d) ==
    IF d = 0 THEN <<Sign(n), 0>>
    ELSE LET g == Gcd(Abs(n), Abs(d))
         IN  <<(Sign(d) * n) \div g, Abs(d) \div g>>

Zeros(n) == Array([k \in 1..n |-> Frac(0, 1)])

(***************************************************************************)
(* Arithmetic on fractions, with the IEEE rules for inf and NaN.           *)
(***************************************************************************)
NaN == <<0, 0>>

IsNaN(a) == a = NaN

IsInf(a) == a[2] = 0 /\ a[1] # 0

RInt(n) == Frac(n, 1)

RAdd(a, b) ==
    IF IsInf(a) /\ IsInf(b) THEN (IF a = b THEN a ELSE NaN)
    ELSE Frac(a[1] * b[2] + b[1] * a[2], a[2] * b[2])

RNeg(a) == <<-a[1], a[2]>>

RSub(a, b) == RAdd(a, RNeg(b))

RMul(a, b) == Frac(a[1] * b[1], a[2] * b[2])

RDiv(a, b) ==
    Frac(a[1] * b[2] * (IF b[1] < 0 THEN -1 ELSE 1), a[2] * Abs(b[1]))

RSign(a) == IF IsNaN(a) THEN NaN ELSE RInt(Sign(a[1]))

RAbs(a) == <<Abs(a[1]), a[2]>>

\* a < b; every comparison with NaN is false
RLess(a, b) ==
    IF IsNaN(a) \/ IsNaN(b) THEN FALSE
    ELSE IF IsInf(a) \/ IsInf(b)
         THEN a # b /\ (a = <<-1, 0>> \/ b = <<1, 0>>)
         ELSE a[1] * b[2] < b[1] * a[2]

RLeq(a, b) == ~IsNaN(a) /\ ~IsNaN(b) /\ (a = b \/ RLess(a, b))

RECURSIVE RSum(_)
RSum(s) == IF s = <<>> THEN RInt(0) ELSE RAdd(Head(s), RSum(Tail(s)))

\* np.nansum: NaN counts as zero
NanZero(a) == IF IsNaN(a) THEN RInt(0) ELSE a

NanSum(s) == RSum(Array([k \in DOMAIN s |-> NanZero(s[k])]))

\* the finite-or-infinite entries of an array
NotNaN(s) == {k \in DOMAIN s : ~IsNaN(s[k])}

\* np.nanmax, np.nanmin: NaN when every entry is NaN
NanMax(s) ==
    IF NotNaN(s) = {} THEN NaN
    ELSE s[CHOOSE k \in NotNaN(s) : \A j \in NotNaN(s) : RLeq(s[j], s[k])]

NanMin(s) ==
    IF NotNaN(s) = {} THEN NaN
    ELSE s[CHOOSE k \in NotNaN(s) : \A j \in NotNaN(s) : RLeq(s[k], s[j])]

\* np.max([a, b]) and np.min([a, b]): NaN if either is NaN
RMax2(a, b) == IF IsNaN(a) \/ IsNaN(b) THEN NaN ELSE IF RLess(a, b) THEN b ELSE a

RMin2(a, b) == IF IsNaN(a) \/ IsNaN(b) THEN NaN ELSE IF RLess(b, a) THEN b ELSE a

\* ArgMax with a fault: the first smallest entry.
\* C14_BestIsArgmax does not hold of it.
ArgMin(s) ==
    CHOOSE k \in DOMAIN s :
        /\ \A j \in DOMAIN s : IsNaN(s[j]) \/ RLeq(s[k], s[j])
        /\ \A j \in 1..(k - 1) : IsNaN(s[j]) \/ RLess(s[k], s[j])

\* np.argmax, counted from 1: the first NaN if there is one, else the
\* first largest entry
ArgMax(s) ==
    IF \E k \in DOMAIN s : IsNaN(s[k])
    THEN CHOOSE k \in DOMAIN s :
            IsNaN(s[k]) /\ \A j \in 1..(k - 1) : ~IsNaN(s[j])
    ELSE CHOOSE k \in DOMAIN s :
            /\ \A j \in DOMAIN s : RLeq(s[j], s[k])
            /\ \A j \in 1..(k - 1) : RLess(s[j], s[k])

(***************************************************************************)
(* State.                                                                  *)
(***************************************************************************)
VARIABLES
    fs,        \* the cache files under grids_rootdir, by file name
    rootdir,   \* whether the directory grids_rootdir exists
    pc,        \* where each process stands in its program
    args,      \* the arguments of the running constructor call
    obj,       \* the SourceScan object of each process (its attributes)
    loopi,     \* the index i of the constructor's loop over models
    err,       \* the exception that ended the last call, "" if none
    ops,       \* how many calls the process has made on its object
    origin,    \* how the object got its grid: "built", "loaded" or ""
    asbuilt,   \* the object as the constructor returned it
    last,      \* the last call made on the object and its outcome
    lib        \* the last call of a module function or forward engine

vars ==
    <<fs, rootdir, pc, args, obj, loopi, err, ops, origin, asbuilt, last,
      lib>>

EmptyMap == [k \in {} |-> 0]

NoFile ==
    [state |-> "absent", sm |-> <<>>, ma |-> <<>>, writers |-> {},
     mixed |-> FALSE, by |-> <<>>]

NoSourceMechanisms ==
    [Mt |-> <<>>, fullMt |-> <<>>, Paxis |-> <<>>, Taxis |-> <<>>,
     rms |-> <<>>, xcorr |-> <<>>, PdMt |-> <<>>, PMtd |-> <<>>,
     Pd |-> <<>>, PMt |-> <<>>]

NoObject ==
    [file |-> <<>>, n_model |-> 0, n_obs |-> 0, n_dims |-> 0,
     waves |-> <<>>, components |-> <<>>, atr |-> <<>>, precision |-> 0,
     scanned |-> 0,
     modeled_amplitudes |-> EmptyMap,
     source_mechanisms |-> NoSourceMechanisms,
     data |-> "", data_wavelets |-> <<>>, data_taperwindows |-> <<>>,
     data_indexes |-> <<>>, opt_stack |-> <<>>, synth_stack |-> <<>>,
     power_synth_stack |-> <<>>, power_opt_stack |-> <<>>,
     best_likelyhood |-> <<>>, centroid |-> <<>>, pdf |-> <<>>]

\* no call yet: `scanned' is the flag a call was given (1 where the method
\* takes none), `onlyscans' whether every call so far was scan()
NoCall == [op |-> "", data |-> "", scanned |-> 1, ok |-> TRUE, onlyscans |-> TRUE]

\* no function called yet: its name, its arguments, what it returned (<<>>
\* if it raised) and the exception it raised ("" if it returned)
NoLibCall ==
    [fn |-> "", module |-> "", args |-> <<>>, out |-> <<>>, err |-> "",
     msg |-> ""]

Init ==
    /\ fs = [f \in Files |-> NoFile]
    /\ rootdir = FALSE
    /\ pc = [p \in Procs |-> "new"]
    /\ args = [p \in Procs |-> [cfg |-> CfgDefault, grid |-> <<>>]]
    /\ obj = [p \in Procs |-> NoObject]
    /\ loopi = [p \in Procs |-> 0]
    /\ err = [p \in Procs |-> ""]
    /\ ops = [p \in Procs |-> 0]
    /\ origin = [p \in Procs |-> ""]
    /\ asbuilt = [p \in Procs |-> NoObject]
    /\ last = [p \in Procs |-> NoCall]
    /\ lib = NoLibCall

(***************************************************************************)
(* Observed datasets: data.Stream (the samples of each trace and its       *)
(* channel code, whose last letter is the component) and                   *)
(* data.observations ('types', 'cart', 'sph').                             *)
(***************************************************************************)
Trace(samples, channel) == [data |-> samples, channel |-> channel]

EHL == <<"E", "H", "L">>

EHT == <<"E", "H", "T">>

MakeData(stream, types, cart) ==
    [Stream |-> stream, types |-> types, cart |-> cart,
     sph |-> Array([k \in DOMAIN cart |-> cartesian_to_spherical(cart[k])])]

Data(id) ==
    CASE id = "oneP" ->
            MakeData(<<Trace(<<0, 1, 0, -1>>, EHL)>>, <<W_P>>, << <<2, 1, 2>> >>)
      [] id = "twoP" ->
            MakeData(<<Trace(<<0, 2, 0, -2>>, EHL), Trace(<<0, -1, 0, 1>>, EHL)>>,
                     <<W_P, W_P>>, << <<2, 2, 1>>, <<-2, 2, -1>> >>)
      [] id = "PandS" ->
            MakeData(<<Trace(<<0, 1, 0, -1>>, EHL), Trace(<<1, 2, -1, 0>>, EHT)>>,
                     <<W_P, W_S>>, << <<2, 1, 2>>, <<-1, -2, 2>> >>)
      [] id = "empty" -> MakeData(<<>>, <<>>, <<>>)
      [] id = "flat" ->       \* one trace without signal
            MakeData(<<Trace(<<0, 0, 0, 0>>, EHL)>>, <<W_P>>, << <<2, 1, 2>> >>)

DataIds == {"oneP", "twoP", "PandS", "empty", "flat"}

(***************************************************************************)
(* SourceScan._data_init.                                                  *)
(***************************************************************************)
MaxAbs(samples) ==
    CHOOSE m \in {Abs(samples[k]) : k \in DOMAIN samples} :
        \A k \in DOMAIN samples : Abs(samples[k]) <= m

\* line 2034: w.data / np.max(abs(w.data))
Normalized(samples) ==
    Array([k \in DOMAIN samples |->
              RDiv(RInt(samples[k]), RInt(MaxAbs(samples)))])

\* lines 2036-2038: 2 * (l, l-1, ..., 1), cut at l, over l
Taper(l) == Array([k \in 1..l |-> Frac(Min2(2 * (l - (k - 1)), l), l)])

\* lines 2055-2057: the first grid direction at the least distance in
\* (azimuth, polar angle, radius); the square root keeps the order
SqDist(a, b) ==
    (a[1] - b[1]) * (a[1] - b[1]) + (a[2] - b[2]) * (a[2] - b[2])
      + (a[3] - b[3]) * (a[3] - b[3])

\* Nearest with a fault: the last grid direction at the least distance.
\* C28_BoundToNearestIndex does not hold of it.
NearestLast(atr, dir) ==
    CHOOSE k \in DOMAIN atr :
        /\ \A j \in DOMAIN atr : SqDist(dir, atr[k]) <= SqDist(dir, atr[j])
        /\ \A j \in (k + 1)..Len(atr) : SqDist(dir, atr[k]) < SqDist(dir, atr[j])

Nearest(atr, dir) ==
    CHOOSE k \in DOMAIN atr :
        /\ \A j \in DOMAIN atr : SqDist(dir, atr[k]) <= SqDist(dir, atr[j])
        /\ \A j \in 1..(k - 1) : SqDist(dir, atr[k]) < SqDist(dir, atr[j])

VMul(a, b) == Array([k \in DOMAIN a |-> RMul(a[k], b[k])])

VAdd(a, b) == Array([k \in DOMAIN a |-> RAdd(a[k], b[k])])

VScale(c, a) == Array([k \in DOMAIN a |-> RMul(c, a[k])])

\* np.sum(v**2.) and np.nansum(v**2.)
Power(v) == RSum(VMul(v, v))

NanPower(v) == NanSum(VMul(v, v))

\* OptStep with the test turned round: the sign of the smaller energy.
\* C26_GreedyMostEnergy does not hold of it.
OptStepLeast(stack, tapered) ==
    IF RLess(Power(VAdd(stack, VScale(RInt(-1), tapered))),
             Power(VAdd(stack, tapered)))
    THEN VAdd(stack, VScale(RInt(-1), tapered))
    ELSE VAdd(stack, tapered)

\* lines 2063-2070: every tapered trace joins the stack with the sign the
\* test of line 2067 picks
OptStep(stack, tapered) ==
    IF RLess(Power(VAdd(stack, tapered)),
             Power(VAdd(stack, VScale(RInt(-1), tapered))))
    THEN VAdd(stack, VScale(RInt(-1), tapered))
    ELSE VAdd(stack, tapered)

RECURSIVE OptStack(_, _, _, _)
OptStack(wavelets, tapers, w, stack) ==
    IF w > Len(wavelets) THEN stack
    ELSE OptStack(wavelets, tapers, w + 1,
                  OptStep(stack, VMul(wavelets[w], tapers[w])))

\* np.sin(2 * np.pi * t) for t = np.linspace(0, 1, lm, endpoint=False)
SinTurn(k, lm) == SinDeg((360 * k) \div lm)

\* lines 2075-2076, i being the index the last loop left
SynthStack(lm, n, taper) ==
    Array([k \in 1..lm |-> RMul(RInt(SinTurn(k - 1, lm) * n), taper[k])])

MaxLen(stream) ==
    IF stream = <<>> THEN 0
    ELSE CHOOSE m \in {Len(stream[k].data) : k \in DOMAIN stream} :
            \A k \in DOMAIN stream : Len(stream[k].data) <= m

\* lines 2024-2057: self.data, the normalised wavelets, their taper
\* windows and the grid direction bound to each trace
Bound(o, id, data) ==
    [o EXCEPT
       !.data = id,
       !.data_wavelets =
           Array([k \in DOMAIN data.Stream |-> Normalized(data.Stream[k].data)]),
       !.data_taperwindows =
           Array([k \in DOMAIN data.Stream |-> Taper(Len(data.Stream[k].data))]),
       !.data_indexes =
           Array([k \in DOMAIN data.Stream |-> Nearest(o.atr, data.sph[k])])]

\* lines 2062-2083: the two stacks and their powers
WithStacks(o, opt, synth) ==
    [o EXCEPT
       !.synth_stack = synth, !.power_synth_stack = NanPower(synth),
       !.opt_stack = opt, !.power_opt_stack = NanPower(opt)]

\* With no trace no loop binds i, and line 2076 raises UnboundLocalError.
Stacked(o, lm) ==
    IF o.data_wavelets = <<>>
    THEN [obj |-> o, err |-> "UnboundLocalError"]
    ELSE [obj |-> WithStacks(o,
                     OptStack(o.data_wavelets, o.data_taperwindows, 1, Zeros(lm)),
                     SynthStack(lm, Len(o.data_wavelets),
                                o.data_taperwindows[Len(o.data_wavelets)])),
          err |-> ""]

\* The attributes after _data_init, and the exception if it raised.
data_init(o, id) == Stacked(Bound(o, id, Data(id)), MaxLen(Data(id).Stream))

(***************************************************************************)
(* SourceScan.corrected_data(mt, data): the data flipped to the polarities *)
(* mt predicts at the data's own directions, and its score.                *)
(* mt is a (strike, dip, rake) triple or a 6-vector of fractions, whose    *)
(* entries may be the substitute 1e-11 of line 2192, written <<1, -11>>.   *)
(***************************************************************************)
Tiny == <<1, -11>>

IsTiny(a) == a[2] < 0

Lcm(a, b) == (a * b) \div Gcd(a, b)

RECURSIVE LcmDen(_)
LcmDen(v) ==
    IF v = <<>> THEN 1
    ELSE Lcm(IF IsTiny(Head(v)) THEN 1 ELSE Head(v)[2], LcmDen(Tail(v)))

\* A tensor as two whole-numbered tensors: the entries of ordinary size,
\* cleared of denominators, and the entries of size 1e-11.
MainPart(mt) ==
    IF Len(mt) = 3 THEN get_M(mt)
    ELSE Array([k \in 1..6 |->
            IF IsTiny(mt[k]) THEN 0 ELSE mt[k][1] * (LcmDen(mt) \div mt[k][2])])

TinyPart(mt) ==
    IF Len(mt) = 3 THEN <<0, 0, 0, 0, 0, 0>>
    ELSE Array([k \in 1..6 |-> IF IsTiny(mt[k]) THEN mt[k][1] ELSE 0])

Finite(mt) == Len(mt) = 3 \/ \A k \in 1..6 : IsTiny(mt[k]) \/ mt[k][2] > 0

\* np.sign of disp_component's amplitude for the tensor mt at direction g:
\* the dot product decides when it is of ordinary size; a dot product of
\* size 1e-11 is outweighed by the 0.00001 of disp_component; the
\* amplitude is 0 when the projection vanishes.
PolarityOf(mt, w, c, g) ==
    LET big == disp_component(g, radpat(MainPart(mt), w, g), c)
        small == disp_component(g, radpat(TinyPart(mt), w, g), c)
    IN  IF big # 0 THEN Sign(big) ELSE IF small # 0 THEN 1 ELSE 0

NoResult ==
    [rms |-> NaN, PdMt |-> NaN, PMt |-> NaN, PMtd |-> NaN, err |-> ""]

\* np.nanmean
NanMean(s) ==
    IF NotNaN(s) = {} THEN NaN
    ELSE RDiv(NanSum(s), RInt(Cardinality(NotNaN(s))))

Last(s) == s[Len(s)]

Component(trace) == <<Last(trace.channel)>>

\* int(100 * x) of line 2450 raises for NaN and for inf
IntRaises(x) == IsNaN(x) \/ IsInf(x)

\* lines 2425-2437: every trace tapered and flipped to the polarity mt
\* predicts at the trace's own direction
Flipped(o, mt, data) ==
    Array([j \in DOMAIN data.Stream |->
        VScale(RInt(PolarityOf(mt, data.types[j], Component(data.Stream[j]),
                               data.cart[j])),
               Array([k \in DOMAIN data.Stream[j].data |->
                         RMul(RInt(data.Stream[j].data[k]),
                              o.data_taperwindows[j][k])]))])

\* the sum of the traces, sample by sample
Summed(traces, lm) ==
    Array([k \in 1..lm |-> RSum(Array([j \in DOMAIN traces |-> traces[j][k]]))])

\* line 2441
Rms(forrms) == RMul(Power(forrms), RSign(RSum(forrms)))

\* line 2450: int(100 * P(Mt|d)) raises for NaN and for inf
Rated(rms, PdMt, PMt, PMtd) ==
    IF IntRaises(PMtd) THEN [NoResult EXCEPT !.err = "ValueError"]
    ELSE [rms |-> rms, PdMt |-> PdMt, PMt |-> PMt, PMtd |-> PMtd, err |-> ""]

\* lines 2443-2447
Posterior(rms, PdMt, PMt, Pd) == Rated(rms, PdMt, PMt, RDiv(RMul(PdMt, PMt), Pd))

Likelihood(o, rms) ==
    Posterior(rms, RDiv(rms, o.power_synth_stack),
              NanMean(o.source_mechanisms.PMt), o.source_mechanisms.Pd[1])

Unknown(o, data) ==
    \E j \in DOMAIN data.Stream :
        <<data.types[j], Component(data.Stream[j])>>
            \notin Range(WaveComps(o.waves, o.components, 1))

corrected_data(o, mt, id) ==
    IF ~Finite(mt) THEN [NoResult EXCEPT !.err = "ValueError"]
    ELSE IF Unknown(o, Data(id)) THEN [NoResult EXCEPT !.err = "KeyError"]
    ELSE IF o.data = "" \/ o.power_synth_stack = <<>>
    THEN [NoResult EXCEPT !.err = "AttributeError"]
    ELSE IF Len(Data(id).Stream) > Len(o.data_taperwindows)
    THEN [NoResult EXCEPT !.err = "IndexError"]
    ELSE IF Len(o.source_mechanisms.Pd) # 1
    THEN [NoResult EXCEPT !.err = "TypeError"]
    ELSE Likelihood(o, Rms(Summed(Flipped(o, mt, Data(id)),
                                  MaxLen(Data(id).Stream))))

(***************************************************************************)
(* SourceScan.scan(data), centroid = 1. and info = 0.                      *)
(***************************************************************************)
\* the key of line 2127 for mechanism row Mo and trace j
AmpKey(Mo, data, j) == <<Mo, data.types[j], Component(data.Stream[j])>>

\* lines 2131-2132: the stack of the traces, each flipped to the sign of
\* the amplitude predicted at its bound grid direction
StackOf(o, data, Mo) ==
    Array([k \in 1..MaxLen(data.Stream) |->
        NanSum([j \in DOMAIN o.data_wavelets |->
            RMul(RInt(Sign(o.modeled_amplitudes[AmpKey(Mo, data, j)]
                              [o.data_indexes[j]])),
                 RMul(o.data_wavelets[j][k], o.data_taperwindows[j][k]))])])

\* Score with a fault: the power of the stack without its sign.
\* C16_SignedStackPower does not hold of it.
ScoreUnsigned(stack) == NanPower(stack)

\* line 2133
Score(stack) == RMul(NanPower(stack), RSign(NanSum(stack)))

\* np.corrcoef(a, b)[0, 1]; the model keeps sign(r) * r^2, which has the
\* sign, the zeros, the NaN and the order of the coefficient r
Corrcoef(a, b) ==
    LET n == RInt(Len(a))
        ma == RDiv(RSum(a), n)
        mb == RDiv(RSum(b), n)
        da == Array([k \in DOMAIN a |-> RSub(a[k], ma)])
        db == Array([k \in DOMAIN b |-> RSub(b[k], mb)])
        c == RSum(VMul(da, db))
    IN  RDiv(RMul(c, RAbs(c)), RMul(Power(da), Power(db)))

\* the first mechanism row (from 1) whose lookup raises KeyError, or N + 1
FirstKeyError(o, data) ==
    LET Mt == o.source_mechanisms.Mt
        bad == {i \in DOMAIN Mt : \E j \in DOMAIN o.data_wavelets :
                    AmpKey(Mt[i], data, j) \notin DOMAIN o.modeled_amplitudes}
    IN  IF bad = {} THEN Len(Mt) + 1
        ELSE CHOOSE i \in bad : \A j \in bad : i <= j

\* Scored with a fault: the score is added to the score the row already
\* holds (rms[i] += ...).  C2_ScanReenterable does not hold of it.
ScoredOnTop(o, data, stop) ==
    LET s0 == o.source_mechanisms
        stacks == Array([i \in 1..(stop - 1) |-> StackOf(o, data, s0.Mt[i])])
    IN  [s0 EXCEPT
           !.rms = Array([i \in DOMAIN s0.rms |->
                      IF i < stop THEN RAdd(s0.rms[i], Score(stacks[i]))
                      ELSE s0.rms[i]]),
           !.xcorr = Array([i \in DOMAIN s0.xcorr |->
                      IF i < stop THEN Corrcoef(o.opt_stack, stacks[i])
                      ELSE s0.xcorr[i]])]

\* lines 2121-2134 for the rows before `stop'
Scored(o, data, stop) ==
    LET s0 == o.source_mechanisms
        stacks == Array([i \in 1..(stop - 1) |-> StackOf(o, data, s0.Mt[i])])
    IN  [s0 EXCEPT
           !.rms = Array([i \in DOMAIN s0.rms |->
                      IF i < stop THEN Score(stacks[i]) ELSE s0.rms[i]]),
           !.xcorr = Array([i \in DOMAIN s0.xcorr |->
                      IF i < stop THEN Corrcoef(o.opt_stack, stacks[i])
                      ELSE s0.xcorr[i]])]

\* Probabilities with a fault: the two limits of P(d) are applied in the
\* other order.  C13_PdClamped does not hold of it.
ProbabilitiesLowerLast(s0, power_synth_stack) ==
    LET N == Len(s0.rms)
        xcorr == Array([i \in DOMAIN s0.xcorr |->
                    IF s0.rms[i] = RInt(0) THEN RInt(0) ELSE s0.xcorr[i]])
        PdMt == Array([i \in DOMAIN s0.rms |->
                    RDiv(s0.rms[i], power_synth_stack)])
        top == NanMax(s0.rms)
        tail == {i \in DOMAIN s0.rms : RLeq(top, RAbs(s0.rms[i]))}
        Pd0 == Frac(Cardinality(tail), 2 * N)
        Pd1 == RMin2(Pd0, NanMax(PdMt))
        Pd2 == RMax2(Pd1, NanMin(s0.PMt))
    IN  [s0 EXCEPT
           !.xcorr = xcorr, !.PdMt = PdMt, !.Pd = <<Pd2>>,
           !.PMtd = Array([i \in DOMAIN PdMt |->
                        RDiv(RMul(PdMt[i], s0.PMt[i]), Pd2)])]

\* Probabilities with a fault: xcorr is left as np.corrcoef gave it.
\* C25_ZeroScoreZeroXcorr does not hold of it.
ProbabilitiesRawXcorr(s0, power_synth_stack) ==
    LET N == Len(s0.rms)
        PdMt == Array([i \in DOMAIN s0.rms |->
                    RDiv(s0.rms[i], power_synth_stack)])
        top == NanMax(s0.rms)
        tail == {i \in DOMAIN s0.rms : RLeq(top, RAbs(s0.rms[i]))}
        Pd0 == Frac(Cardinality(tail), 2 * N)
        Pd1 == RMax2(Pd0, NanMin(s0.PMt))
        Pd2 == RMin2(Pd1, NanMax(PdMt))
    IN  [s0 EXCEPT
           !.PdMt = PdMt, !.Pd = <<Pd2>>,
           !.PMtd = Array([i \in DOMAIN PdMt |->
                        RDiv(RMul(PdMt[i], s0.PMt[i]), Pd2)])]

\* lines 2140-2170: xcorr of the zero scores, then the probabilities
Probabilities(s0, power_synth_stack) ==
    LET N == Len(s0.rms)
        xcorr == Array([i \in DOMAIN s0.xcorr |->
                    IF s0.rms[i] = RInt(0) THEN RInt(0) ELSE s0.xcorr[i]])
        PdMt == Array([i \in DOMAIN s0.rms |->
                    RDiv(s0.rms[i], power_synth_stack)])
        top == NanMax(s0.rms)
        tail == {i \in DOMAIN s0.rms : RLeq(top, RAbs(s0.rms[i]))}
        Pd0 == Frac(Cardinality(tail), 2 * N)
        Pd1 == RMax2(Pd0, NanMin(s0.PMt))
        Pd2 == RMin2(Pd1, NanMax(PdMt))
    IN  [s0 EXCEPT
           !.xcorr = xcorr, !.PdMt = PdMt, !.Pd = <<Pd2>>,
           !.PMtd = Array([i \in DOMAIN PdMt |->
                        RDiv(RMul(PdMt[i], s0.PMt[i]), Pd2)])]

\* line 2180: the weights, negative ones zeroed
Weights(PMtd) ==
    Array([i \in DOMAIN PMtd |->
              IF RLess(PMtd[i], RInt(0)) THEN RInt(0) ELSE PMtd[i]])

\* w[i] < mean + std, std being the square root of var; a comparison with
\* NaN or between infinities is False
Under(w, i, mean, var) ==
    /\ \A k \in DOMAIN w : ~IsNaN(w[k]) /\ ~IsInf(w[k])
    /\ \/ RLess(w[i], mean)
       \/ RLess(RMul(RSub(w[i], mean), RSub(w[i], mean)), var)

Variance(w, mean) ==
    RDiv(Power(Array([i \in DOMAIN w |-> RSub(w[i], mean)])), RInt(Len(w)))

\* line 2181: the weights under mean + std zeroed
Cut(w, mean, var) ==
    Array([i \in DOMAIN w |-> IF Under(w, i, mean, var) THEN RInt(0) ELSE w[i]])

CutAt(w, mean) == Cut(w, mean, Variance(w, mean))

\* Substituted with a fault: NaN replaced by zero.
\* C15_CentroidHasNoNaN does not hold of it.
SubstitutedByZero(avg) ==
    Array([c \in 1..6 |-> IF IsNaN(avg[c]) THEN RInt(0) ELSE avg[c]])

\* lines 2185-2192: the weighted mean of the full tensors, NaN replaced
\* by 1e-11
Substituted(avg) == Array([c \in 1..6 |-> IF IsNaN(avg[c]) THEN Tiny ELSE avg[c]])

Average(w, fullMt, total) ==
    Substituted(Array([c \in 1..6 |->
        RDiv(NanSum([i \in DOMAIN w |-> RMul(w[i], RInt(fullMt[i][c]))]),
             total)]))

WeightedMean(w, fullMt) == Average(w, fullMt, NanSum(w))

Centred(w, fullMt) == WeightedMean(CutAt(w, NanMean(w)), fullMt)

CentroidOf(s0) == Centred(Weights(s0.PMtd), s0.fullMt)

\* Finished with a fault: the posterior replaces the prior P(Mt).
\* C1_ScanKeepsGrid does not hold of it.
FinishedUpdatingPrior(o, cd) ==
    IF cd.err # "" THEN [obj |-> o, err |-> cd.err]
    ELSE [obj |-> [o EXCEPT !.centroid = <<o.centroid[1], cd.PMtd>>,
                            !.source_mechanisms.PMt = o.source_mechanisms.PMtd,
                            !.scanned = 1],
          err |-> ""]

\* line 2194 and 2197: the centroid's probability, then scanned = 1
Finished(o, cd) ==
    IF cd.err # "" THEN [obj |-> o, err |-> cd.err]
    ELSE [obj |-> [o EXCEPT !.centroid = <<o.centroid[1], cd.PMtd>>,
                            !.scanned = 1],
          err |-> ""]

Centroid(o, id) == Finished(o, corrected_data(o, o.centroid[1], id))

\* lines 2174-2192.  The best solution keeps the row of Mt it is a view of.
Solved(o, id) ==
    Centroid([o EXCEPT
                !.best_likelyhood = <<ArgMax(o.source_mechanisms.PMtd),
                                      NanMax(o.source_mechanisms.PMtd)>>,
                !.centroid = <<CentroidOf(o.source_mechanisms), RInt(0)>>],
             id)

\* lines 2121-2137: the loop stops at the first lookup that raises
Rows(o, id, data, stop) ==
    IF stop <= Len(o.source_mechanisms.Mt)
    THEN [obj |-> [o EXCEPT !.source_mechanisms = Scored(o, data, stop)],
          err |-> "KeyError"]
    ELSE Solved([o EXCEPT !.source_mechanisms =
                    Probabilities(Scored(o, data, stop), o.power_synth_stack)],
                id)

Initialised(di, id, data) ==
    IF di.err # "" THEN di
    ELSE Rows(di.obj, id, data, FirstKeyError(di.obj, data))

\* The attributes after scan(data) and the exception if it raised.
scan(o, id) == Initialised(data_init(o, id), id, Data(id))

(***************************************************************************)
(* SourceScan.__init__, lines 1884-1937: the attributes, the observation   *)
(* grid, the dimensionality branch and the grid directory.  Only           *)
(* n_dims == 3 binds the local source_mechanisms; the other branches print *)
(* (4, 5, 6) or do nothing, and N = np.prod(source_mechanisms.shape[:-1])  *)
(* then raises UnboundLocalError.                                          *)
(***************************************************************************)
Attributes(cfg) ==
    [NoObject EXCEPT
        !.file = FileName(cfg), !.n_model = cfg.n_model,
        !.n_obs = cfg.n_obs, !.n_dims = cfg.n_dims,
        !.waves = cfg.waves, !.components = cfg.components,
        !.atr = Array([k \in 1..cfg.n_obs |->
                          cartesian_to_spherical(Globe(cfg.n_obs)[k])])]

DimsImplemented(n_dims) == n_dims = 3

Construct(p, cfg, grid) ==
    /\ pc[p] = "new"
    /\ \A q \in Procs : ops[q] = 0
    /\ args' = [args EXCEPT ![p] = [cfg |-> cfg, grid |-> grid]]
    /\ IF DimsImplemented(cfg.n_dims)
       THEN /\ obj' = [obj EXCEPT ![p] =
                        [Attributes(cfg) EXCEPT
                            !.precision = Precision(cfg.n_model),
                            !.scanned = 0]]
            /\ rootdir' = TRUE
            /\ pc' = [pc EXCEPT ![p] = "test_exists"]
            /\ err' = err
       ELSE /\ obj' = [obj EXCEPT ![p] = Attributes(cfg)]
            /\ rootdir' = rootdir
            /\ pc' = [pc EXCEPT ![p] = "failed"]
            /\ err' = [err EXCEPT ![p] = "UnboundLocalError"]
    /\ UNCHANGED <<fs, loopi, ops, origin, asbuilt, last, lib>>

(***************************************************************************)
(* Line 1940: if not os.path.exists(file) or grid is 'reset'.              *)
(* `is' compares object identity: a string that differs from 'reset' is    *)
(* never the literal, and an equal string is the literal only if the       *)
(* interpreter happens to share the two objects.                           *)
(***************************************************************************)
RESET == <<"r", "e", "s", "e", "t">>

IsLiteral(grid, literal) == IF grid = literal THEN {TRUE, FALSE} ELSE {FALSE}

\* FreshSourceMechanisms with a fault: the prior is 1/N.
\* C18_PriorIsTwoOverN does not hold of it.
FreshUniformPrior(N) ==
    [Mt |-> Array([k \in 1..N |-> <<0, 0, 0>>]),
     fullMt |-> Array([k \in 1..N |-> <<0, 0, 0, 0, 0, 0>>]),
     Paxis |-> Array([k \in 1..N |-> <<0, 0, 0>>]),
     Taxis |-> Array([k \in 1..N |-> <<0, 0, 0>>]),
     rms |-> Zeros(N), xcorr |-> Zeros(N), PdMt |-> Zeros(N),
     PMtd |-> Zeros(N), Pd |-> Zeros(N),
     PMt |-> Array([k \in 1..N |-> Frac(1, N)])]

\* lines 1943-1953: the dictionaries a fresh build starts from
FreshSourceMechanisms(N) ==
    [Mt |-> Array([k \in 1..N |-> <<0, 0, 0>>]),
     fullMt |-> Array([k \in 1..N |-> <<0, 0, 0, 0, 0, 0>>]),
     Paxis |-> Array([k \in 1..N |-> <<0, 0, 0>>]),
     Taxis |-> Array([k \in 1..N |-> <<0, 0, 0>>]),
     rms |-> Zeros(N), xcorr |-> Zeros(N), PdMt |-> Zeros(N),
     PMtd |-> Zeros(N), Pd |-> Zeros(N),
     PMt |-> Array([k \in 1..N |-> Frac(2, N)])]

TestExists(p) ==
    /\ pc[p] = "test_exists"
    /\ \E same \in IsLiteral(args[p].grid, RESET) :
          IF fs[obj[p].file].state = "absent" \/ same
          THEN /\ obj' = [obj EXCEPT
                    ![p].modeled_amplitudes = EmptyMap,
                    ![p].source_mechanisms =
                        FreshSourceMechanisms(NCells(args[p].cfg))]
               /\ loopi' = [loopi EXCEPT ![p] = 0]
               /\ pc' = [pc EXCEPT ![p] = "build"]
          ELSE /\ pc' = [pc EXCEPT ![p] = "load"]
               /\ UNCHANGED <<obj, loopi>>
    /\ UNCHANGED <<fs, rootdir, args, err, ops, origin, asbuilt, last, lib>>

(***************************************************************************)
(* Lines 1956-1977: one pass of the loop over models.  Cell i gets its     *)
(* mechanism, full tensor and axes, then one amplitude field per (wave,    *)
(* component) pair; vector_normal leaves XYZ_n unbound for a component it  *)
(* does not know, which raises UnboundLocalError in the middle of the cell.*)
(***************************************************************************)
SetAt(seq, k, v) == [seq EXCEPT ![k] = v]

FirstBad(pairs) ==
    IF \E k \in DOMAIN pairs : pairs[k][2] \notin KnownComps
    THEN CHOOSE k \in DOMAIN pairs :
            /\ pairs[k][2] \notin KnownComps
            /\ \A j \in 1..(k - 1) : pairs[j][2] \in KnownComps
    ELSE Len(pairs) + 1

CellAmplitudes(o, sm) ==
    LET pairs == WaveComps(o.waves, o.components, 1)
        done == 1..(FirstBad(pairs) - 1)
    IN  [key \in {<<sm, pairs[k][1], pairs[k][2]>> : k \in done} |->
            AmplitudeField(sm, key[2], key[3], o.n_obs)]

BuiltCell(o, cfg, i) ==
    LET sm == MechanismAt(cfg, i)
        s0 == o.source_mechanisms
    IN  [o EXCEPT
          !.source_mechanisms =
              [s0 EXCEPT !.Mt = SetAt(s0.Mt, i + 1, sm),
                         !.fullMt = SetAt(s0.fullMt, i + 1, get_M(sm)),
                         !.Paxis = SetAt(s0.Paxis, i + 1, p_axis(sm)),
                         !.Taxis = SetAt(s0.Taxis, i + 1, t_axis(sm))],
          !.modeled_amplitudes = CellAmplitudes(o, sm) @@ o.modeled_amplitudes]

\* LoopEnds with a fault: the loop stops one cell short.
\* C7_PersistWholeGrid does not hold of it.
LoopEndsEarly(i, N) == i + 2 >= N

\* line 1956: for i, ... in enumerate(...) ends with the pass for the last cell
LoopEnds(i, N) == i + 1 = N

BuildCell(p) ==
    /\ pc[p] = "build"
    /\ loopi[p] < NCells(args[p].cfg)
    /\ obj' = [obj EXCEPT ![p] = BuiltCell(obj[p], args[p].cfg, loopi[p])]
    /\ IF FirstBad(WaveComps(obj[p].waves, obj[p].components, 1))
            <= Len(WaveComps(obj[p].waves, obj[p].components, 1))
       THEN /\ pc' = [pc EXCEPT ![p] = "failed"]
            /\ err' = [err EXCEPT ![p] = "UnboundLocalError"]
            /\ loopi' = loopi
       ELSE /\ loopi' = [loopi EXCEPT ![p] = loopi[p] + 1]
            /\ pc' = [pc EXCEPT ![p] =
                        IF LoopEnds(loopi[p], NCells(args[p].cfg))
                        THEN "save_open" ELSE "build"]
            /\ err' = err
    /\ UNCHANGED <<fs, rootdir, args, ops, origin, asbuilt, last, lib>>

(***************************************************************************)
(* Line 2002: np.savez(file, source_mechanisms=..., modeled_amplitudes=...)*)
(* writes the archive in place under its final name: it creates (or        *)
(* truncates) the file, stores the two objects one after the other and     *)
(* closes the archive.  Two processes writing the same name at once leave  *)
(* whatever their interleaved writes produce.                              *)
(***************************************************************************)
SaveOpen(p) ==
    /\ pc[p] = "save_open"
    /\ fs' = [fs EXCEPT ![obj[p].file] =
                [state |-> "open", sm |-> <<>>, ma |-> <<>>,
                 writers |-> fs[obj[p].file].writers \cup {p},
                 mixed |-> fs[obj[p].file].writers # {},
                 by |-> <<>>]]
    /\ pc' = [pc EXCEPT ![p] = "save_sm"]
    /\ UNCHANGED <<rootdir, args, obj, loopi, err, ops, origin, asbuilt, last, lib>>

SaveFirst(p) ==
    /\ pc[p] = "save_sm"
    /\ fs' = [fs EXCEPT ![obj[p].file] =
                IF fs[obj[p].file].mixed THEN @
                ELSE [@ EXCEPT !.sm = <<obj[p].source_mechanisms>>]]
    /\ pc' = [pc EXCEPT ![p] = "save_ma"]
    /\ UNCHANGED <<rootdir, args, obj, loopi, err, ops, origin, asbuilt, last, lib>>

\* Written with a fault: the mechanisms are stored as the build started
\* with them.  C4_CacheRoundTrip does not hold of it.
WrittenAtStart(p) ==
    [state |-> "closed",
     sm |-> <<FreshSourceMechanisms(NCells(args[p].cfg))>>,
     ma |-> <<obj[p].modeled_amplitudes>>,
     writers |-> fs[obj[p].file].writers \ {p}, mixed |-> FALSE,
     by |-> <<args[p].cfg>>]

\* what the file holds once p has stored both objects and closed
Written(p) ==
    [state |-> "closed", sm |-> <<obj[p].source_mechanisms>>,
     ma |-> <<obj[p].modeled_amplitudes>>,
     writers |-> fs[obj[p].file].writers \ {p}, mixed |-> FALSE,
     by |-> <<args[p].cfg>>]

Garbled(p) ==
    [state |-> "corrupt", sm |-> <<>>, ma |-> <<>>,
     writers |-> fs[obj[p].file].writers \ {p},
     mixed |-> fs[obj[p].file].writers \ {p} # {}, by |-> <<>>]

SaveSecond(p) ==
    /\ pc[p] = "save_ma"
    /\ \E content \in IF fs[obj[p].file].mixed
                      THEN {Garbled(p), [Written(p) EXCEPT
                                !.mixed = fs[obj[p].file].writers \ {p} # {}]}
                      ELSE {Written(p)} :
          fs' = [fs EXCEPT ![obj[p].file] = content]
    /\ pc' = [pc EXCEPT ![p] = "ready"]
    /\ origin' = [origin EXCEPT ![p] = "built"]
    /\ asbuilt' = [asbuilt EXCEPT ![p] = obj[p]]
    /\ UNCHANGED <<rootdir, args, obj, loopi, err, ops, last, lib>>

(***************************************************************************)
(* Lines 2005-2007: np.load and the two .item() reads.  There is no        *)
(* handler: a file that is not a complete archive raises out of the        *)
(* constructor.                                                            *)
(***************************************************************************)
Loadable(file) == file.state = "closed"

Load(p) ==
    /\ pc[p] = "load"
    /\ IF Loadable(fs[obj[p].file])
       THEN /\ obj' = [obj EXCEPT
                 ![p].modeled_amplitudes = fs[obj[p].file].ma[1],
                 ![p].source_mechanisms = fs[obj[p].file].sm[1]]
            /\ pc' = [pc EXCEPT ![p] = "ready"]
            /\ origin' = [origin EXCEPT ![p] = "loaded"]
            /\ asbuilt' = [asbuilt EXCEPT ![p] = obj'[p]]
            /\ err' = err
       ELSE /\ pc' = [pc EXCEPT ![p] = "failed"]
            /\ err' = [err EXCEPT ![p] = "IOError"]
            /\ UNCHANGED <<obj, origin, asbuilt>>
    /\ UNCHANGED <<fs, rootdir, args, loopi, ops, last, lib>>

(***************************************************************************)
(* The calls on a constructed object.  Each action is one whole call.      *)
(***************************************************************************)
Resting(q) == pc[q] \in {"new", "ready", "failed"}

\* The calls touch neither the cache nor another object: they are explored,
\* MaxOps at most, on the object of a process that runs alone.
Ready(p) ==
    /\ pc[p] = "ready"
    /\ ops[p] < MaxOps
    /\ \A q \in Procs \ {p} : pc[q] = "new"

Called(p, op, id, scanned, r) ==
    /\ obj' = [obj EXCEPT ![p] = r.obj]
    /\ err' = [err EXCEPT ![p] = r.err]
    /\ last' = [last EXCEPT ![p] =
                  [op |-> op, data |-> id, scanned |-> scanned, ok |-> r.err = "",
                   onlyscans |-> last[p].onlyscans /\ op = "scan"]]
    /\ ops' = [ops EXCEPT ![p] = ops[p] + 1]
    /\ UNCHANGED <<fs, rootdir, pc, args, loopi, origin, asbuilt, lib>>

Scan(p, id) ==
    /\ Ready(p)
    /\ Called(p, "scan", id, 1, scan(obj[p], id))

\* `if self.scanned == 0 or scanned == 0: self.scan(data)', the opening of
\* plot, plot_PT and demo
ScanIfAsked(o, scanned, id) ==
    IF o.scanned = 0 \/ scanned = 0 THEN scan(o, id)
    ELSE [obj |-> o, err |-> ""]

\* np.max: NaN as soon as one entry is NaN
np_max(s) == IF \E k \in DOMAIN s : IsNaN(s[k]) THEN NaN ELSE NanMax(s)

\* The points <<j, k>> of the 100 x 50 mesh of PT_pdf that the model keeps:
\* longitude -pi + 2 pi j / 99, polar angle pi k / 49.
PdfGrid == << <<99, 0>>, <<99, 49>>, <<99, 35>>, <<99, 14>>, <<49, 35>>, <<49, 14>> >>

spaces == <<"Paxis", "Taxis">>

\* clust_coef = 1 / (haversine(axis, mesh point) / pi) ** .5, in hundredths,
\* for the axes of the grid and the mesh points of PdfGrid in their order
clust_coef(axis, x) ==
    LET hundredths ==
            CASE <<axis[1], axis[2]>> = <<0, 45>> -> <<200, 115, 102, 137, 147, 523>>
              [] <<axis[1], axis[2]>> = <<0, 135>> -> <<115, 200, 137, 102, 523, 147>>
              [] <<axis[1], axis[2]>> = <<180, 45>> -> <<200, 115, 147, 529, 102, 137>>
              [] <<axis[1], axis[2]>> = <<180, 135>> -> <<115, 200, 529, 147, 137, 102>>
    IN  Frac(hundredths[x], 100)

\* one entry of self.pdf['P/T'] after `self.pdf['P/T'] /= mem_clust_coef':
\* sum(rms * clust_coef) / sum(clust_coef), with rms = P(Mt|d) * -1
Smoothed(axes, PMtd, x) ==
    RDiv(RSum(Array([k \in DOMAIN PMtd |->
                        RMul(RNeg(PMtd[k]), clust_coef(axes[k], x))])),
         RSum(Array([k \in DOMAIN PMtd |-> clust_coef(axes[k], x)])))

\* the two surfaces one after the other, P-axis first
SmoothedPT(sm) ==
    Array([n \in 1..(2 * Len(PdfGrid)) |->
              IF n <= Len(PdfGrid) THEN Smoothed(sm.Paxis, sm.PMtd, n)
              ELSE Smoothed(sm.Taxis, sm.PMtd, n - Len(PdfGrid))])

\* `self.pdf['P/T'] /= np.max(self.pdf['P/T'])', then
\* `self.pdf['P/T'] *= np.max(self.source_mechanisms['P(Mt|d)'])'
Rescaled(PT, PMtd) ==
    Array([n \in DOMAIN PT |-> RMul(RDiv(PT[n], np_max(PT)), np_max(PMtd))])

\* PT_pdf writes self.pdf: the surface over the mesh and, kept with it, what
\* the surface is computed from.
PT_pdf(o) ==
    [o EXCEPT !.pdf = <<[Paxis |-> o.source_mechanisms.Paxis,
                         Taxis |-> o.source_mechanisms.Taxis,
                         PMtd |-> o.source_mechanisms.PMtd,
                         PT |-> Rescaled(SmoothedPT(o.source_mechanisms),
                                         o.source_mechanisms.PMtd)]>>]

PTpdf(p) ==
    /\ Ready(p)
    /\ Called(p, "PT_pdf", "", 1, [obj |-> PT_pdf(obj[p]), err |-> ""])

\* what follows the opening scan, if that did not raise
Surface(r) == IF r.err # "" THEN r ELSE [obj |-> PT_pdf(r.obj), err |-> ""]

plot_PT(o, scanned, id) == Surface(ScanIfAsked(o, scanned, id))

PlotPT(p, scanned, id) ==
    /\ Ready(p)
    /\ Called(p, "plot_PT", id, scanned, plot_PT(obj[p], scanned, id))

\* the mechanism self.best_likelyhood[0] views
BestMechanism(o) == o.source_mechanisms.Mt[o.best_likelyhood[1]]

\* lines 2222-2236: the data corrected for the best solution, then for
\* the centroid
Drawn(o, best) ==
    IF best.err # "" THEN [obj |-> o, err |-> best.err]
    ELSE [obj |-> o, err |-> corrected_data(o, o.centroid[1], o.data).err]

Figures(r) ==
    IF r.err # "" THEN r
    ELSE Drawn(r.obj, corrected_data(r.obj, BestMechanism(r.obj), r.obj.data))

\* plot: scan if asked, plot_PT(scanned=1), then the two corrected datasets
plot(o, scanned, id) == Figures(plot_PT(o, scanned, id))

Plot(p, scanned, id) ==
    /\ Ready(p)
    /\ Called(p, "plot", id, scanned, plot(obj[p], scanned, id))

\* lines 2393-2398: tmp = self.best_likelyhood[0] is a view of a row of
\* Mt; each trial adds its change to the strike in place
Wrap(strike) == IF strike > 360 THEN strike - 360 ELSE strike

Trials(strike) == Wrap(Wrap(Wrap(strike + 90) + 180) + 270)

Tried(o, best) ==
    IF best.err # "" THEN [obj |-> o, err |-> best.err]
    ELSE [obj |-> [o EXCEPT !.source_mechanisms.Mt[o.best_likelyhood[1]][1] =
                       Trials(@)],
          err |-> ""]

Shown(r) ==
    IF r.err # "" THEN r
    ELSE Tried(r.obj, corrected_data(r.obj, BestMechanism(r.obj), r.obj.data))

\* demo: data.degrade(...) leaves a noisy dataset, here any dataset `id';
\* scan if asked; the data corrected for the best solution; three trials
demo(o, scanned, id) == Shown(ScanIfAsked(o, scanned, id))

Demo(p, scanned, id) ==
    /\ Ready(p)
    /\ Called(p, "demo", id, scanned, demo(obj[p], scanned, id))

Answer(o, cd) == [obj |-> o, err |-> cd.err]

CorrectedData(p, mt, id) ==
    /\ Ready(p)
    /\ Called(p, "corrected_data", id, 1,
              Answer(obj[p], corrected_data(obj[p], mt, id)))

Mechanisms == {<<0, 0, 0>>, <<90, 0, 180>>}

Flags == {0, 1}

\* the steps of a process past the start of its constructor
Continue(p) ==
    \/ TestExists(p)
    \/ BuildCell(p)
    \/ SaveOpen(p)
    \/ SaveFirst(p)
    \/ SaveSecond(p)
    \/ Load(p)
    \/ \E id \in DataIds : Scan(p, id)
    \/ PTpdf(p)
    \/ \E scanned \in Flags, id \in DataIds : PlotPT(p, scanned, id)
    \/ \E scanned \in Flags, id \in DataIds : Plot(p, scanned, id)
    \/ \E scanned \in Flags, id \in DataIds : Demo(p, scanned, id)
    \/ \E mt \in Mechanisms, id \in DataIds : CorrectedData(p, mt, id)

Next ==
    \E p \in Procs :
        \/ \E cfg \in Configs, grid \in GridArgs : Construct(p, cfg, grid)
        \/ Continue(p)

Spec == Init /\ [][Next]_vars

\* Sequential execution: a constructor starts only while no other runs.
Sequential(p) == \A q \in Procs \ {p} : Resting(q)

NextSeq ==
    \E p \in Procs :
        \/ \E cfg \in Configs, grid \in GridArgs :
              Sequential(p) /\ Construct(p, cfg, grid)
        \/ Continue(p)

SpecSeq == Init /\ [][NextSeq]_vars

(***************************************************************************)
(* The functions of the modules and the forward engines, called on their   *)
(* own.  An array argument is its shape and its elements in row order.     *)
(***************************************************************************)
objects == <<fs, rootdir, pc, args, obj, loopi, err, ops, origin, asbuilt, last>>

\* the record of a call: the function, its module, its arguments, and what
\* it returned or raised
Library(fn, module, arguments, r) ==
    [fn |-> fn, module |-> module, args |-> arguments, out |-> r.out,
     err |-> r.err, msg |-> r.msg]

NdArray(shape, data) == [shape |-> shape, data |-> data]

Returned(out) == [out |-> out, err |-> "", msg |-> ""]

RaisedNothing(type, msg) == [out |-> <<>>, err |-> "", msg |-> ""]

Raised(type, msg) == [out |-> <<>>, err |-> type, msg |-> msg]

SCANNER == "scanner.py"

SOURCE == "source.py"

Modules == {SCANNER, SOURCE}

\* the two nodal planes of a 2 x 3 array
Plane(mt, i) == SubSeq(mt.data, 3 * i - 2, 3 * i)

\* which plane mt_angles keeps: scanner.py the first if its strike is the
\* smaller in absolute value and else the second, source.py the first
NodalPlane(mt, module) ==
    IF module = SOURCE \/ Abs(mt.data[1]) < Abs(mt.data[4])
    THEN Plane(mt, 1)
    ELSE Plane(mt, 2)

\* a pure double couple given by other percentages
FromAnglesUndecided(angles) == <<angles, <<NaN, NaN, RInt(0), RInt(100)>> >>

\* [[strike, dip, rake], [DC, CLVD, iso, devi]] of a pure double couple
FromAngles(angles) ==
    <<angles, <<RInt(100), RInt(0), RInt(0), RInt(100)>> >>

DimensionMessage ==
    "I/O dimensions: only [1|2]x3, 1x[4|6] and 3x3 inputs supported."

\* mt_angles; mopad is what obspy's MomentTensor answers for the six
\* components: its two nodal planes and its four percentages
mt_angles(mt, mopad, module) ==
    CASE mt.shape = <<3>> -> Returned(FromAngles(mt.data))
      [] mt.shape = <<2, 3>> -> Returned(FromAngles(NodalPlane(mt, module)))
      [] mt.shape = <<4>> ->
            Returned(<<SubSeq(mt.data, 1, 3),
                       <<NaN, NaN, RInt(0), RInt(mt.data[4])>> >>)
      [] mt.shape \in {<<6>>, <<3, 3>>} ->
            Returned(<<NodalPlane(NdArray(<<2, 3>>, mopad.fps), module),
                       mopad.percentages>>)
      [] OTHER -> Raised("Exception", DimensionMessage)

\* arguments of mt_angles
Angles == {<<0, 90, 0>>, <<200, 45, -90>>, <<-30, 60, 180>>}

Filled(n) == Array([k \in 1..n |-> k - 2])

MtArrays ==
    {NdArray(<<3>>, a) : a \in Angles}
    \cup {NdArray(<<2, 3>>, a \o b) : a, b \in Angles}
    \cup {NdArray(<<4>>, Append(a, devi)) : a \in Angles, devi \in {0, 70, 100}}
    \cup {NdArray(<<6>>, Filled(6)), NdArray(<<3, 3>>, Filled(9))}
    \cup {NdArray(<<>>, Filled(1)), NdArray(<<0>>, Filled(0)),
          NdArray(<<1>>, Filled(1)), NdArray(<<2>>, Filled(2)),
          NdArray(<<5>>, Filled(5)), NdArray(<<7>>, Filled(7)),
          NdArray(<<9>>, Filled(9)), NdArray(<<1, 3>>, Filled(3)),
          NdArray(<<3, 1>>, Filled(3)), NdArray(<<3, 2>>, Filled(6)),
          NdArray(<<1, 6>>, Filled(6)), NdArray(<<2, 2>>, Filled(4)),
          NdArray(<<1, 3, 3>>, Filled(9))}

\* answers of obspy's MomentTensor
MoPaD ==
    {[fps |-> <<0, 90, 0, 270, 90, 180>>,
      percentages |-> <<RInt(100), RInt(0), RInt(0), RInt(100)>>],
     [fps |-> <<200, 45, -90>> \o <<20, 45, -90>>,
      percentages |-> <<RInt(50), RInt(30), RInt(20), RInt(80)>>],
     [fps |-> <<-30, 60, 180>> \o <<-30, 60, 180>>,
      percentages |-> <<RInt(0), RInt(40), RInt(60), RInt(40)>>]}

MtAngles(mt, mopad, module) ==
    /\ lib' = Library("mt_angles", module, <<mt>>, mt_angles(mt, mopad, module))
    /\ UNCHANGED objects

\* project_vectors: the projection of b on a, times |a|^2 + 0.0000000001
project_vectors(b, a) == <<Dot(a, b) * a[1], Dot(a, b) * a[2], Dot(a, b) * a[3]>>

None == <<"None">>

\* The amplitude disp_component returns for the displacement
\* main + tiny * 1e-11, as <<part of ordinary size, part of size 1e-11>>
\* and up to a positive factor.  The norm of the projection is the absolute
\* value of the dot product over the length of the direction; the 0.00001
\* added before np.sign outweighs a dot product of size 1e-11 and nothing
\* of ordinary size.  With comp None the direction is the displacement.
amplitudes(g, main, tiny, comp) ==
    LET big == IF comp = None THEN Dot(main, main)
               ELSE disp_component(g, main, comp)
        small == IF comp = None
                 THEN (IF big # 0 THEN 2 * Dot(main, tiny) ELSE Dot(tiny, tiny))
                 ELSE disp_component(g, tiny, comp)
    IN  IF big # 0 THEN <<big, small>> ELSE <<0, Abs(small)>>

\* vector_normal leaves XYZ_n unbound for a name it does not know
disp_component_call(g, main, tiny, comp) ==
    IF comp \in KnownComps \cup {None}
    THEN Returned(amplitudes(g, main, tiny, comp))
    ELSE Raised("UnboundLocalError", "XYZ_n")

Displacements == {<<0, 0, 0>>, <<2, 1, 2>>, <<-1, 3, 0>>}

DispComponent(g, main, tiny, comp) ==
    /\ lib' = Library("disp_component", SCANNER, <<g, main, tiny, comp>>,
                      disp_component_call(g, main, tiny, comp))
    /\ UNCHANGED objects

(***************************************************************************)
(* Aki_Richards.radpat(wave) at one observation direction.  The synonyms   *)
(* of the S components project the S displacement; the loop over the       *)
(* points writes the displacement of an S or a P wave into the array that  *)
(* np.empty made and nothing for any other name, so what that array held   *)
(* before is returned: `unset'.                                            *)
(***************************************************************************)
SvNames == Named({"Sv", "S_v", "Sv wave", "Sv-wave"})

SqNames ==
    Named({"Sq", "SQ", "Sm", "SM", "SN", "Sn", "Snrh", "Snrh wave",
           "Snrh-wave"})

StNames == Named({"St", "ST", "SH", "Sh", "S_h", "Sh wave", "Sh-wave"})

Aki_Richards_radpat(M, wave, g, unset) ==
    CASE wave \in SvNames ->
            Returned(project_vectors(radpat(M, W_S, g), vector_normal(g, <<"v">>)))
      [] wave \in SqNames ->
            Returned(project_vectors(radpat(M, W_S, g), vector_normal(g, C_Q)))
      [] wave \in StNames ->
            Returned(project_vectors(radpat(M, W_S, g), vector_normal(g, C_T)))
      [] wave \in SNames \cup PNames -> Returned(radpat(M, wave, g))
      [] OTHER -> Returned(unset)

\* what np.empty may hand out
Uninitialised == {<<0, 0, 0>>, <<1, -2, 3>>}

\* wave names neither engine knows, with 'SV', which only Vavryeuk knows
UnknownWaves == Named({"SV", "p", "Rayleigh", ""})

AkiRichardsWaves ==
    Named({"P", "S", "S wave", "Sv", "Sq", "SH"})
        \cup UnknownWaves

AkiRichardsRadpat(mt, wave, g, unset) ==
    /\ lib' = Library("Aki_Richards.radpat", SCANNER, <<mt, wave, g>>,
                      Aki_Richards_radpat(get_M(mt), wave, g, unset))
    /\ UNCHANGED objects

(***************************************************************************)
(* Vavryeuk.radpat(wave, obs_sph=[AZM, TKO]) at one observation direction, *)
(* on angles that are multiples of 90 degrees.  sinM and cosM are the sine *)
(* and the cosine of MODE1 = arcsin((100 - DC) / 100).                     *)
(***************************************************************************)
\* (2*poisson)/(2*poisson - 1) at the default poisson = 0.25
PoissonTerm == -1

\* line 1219: G of the P wave
G_P(strike, dip, rake, azm, tko, sinM, cosM) ==
    (((CosDeg(tko) * (((CosDeg(tko) * ((sinM * ((2 * (CosDeg(dip) *
      CosDeg(dip))) - PoissonTerm)) + ((SinDeg(2 * dip) * cosM) *
      SinDeg(rake)))) - ((CosDeg(azm) * SinDeg(tko)) * ((cosM *
      (((CosDeg(2 * dip) * SinDeg(rake)) * SinDeg(strike)) +
      ((CosDeg(dip) * CosDeg(rake)) * CosDeg(strike)))) - ((SinDeg(2 *
      dip) * sinM) * SinDeg(strike))))) + ((SinDeg(azm) * SinDeg(tko)) *
      ((cosM * (((CosDeg(2 * dip) * CosDeg(strike)) * SinDeg(rake)) -
      ((CosDeg(dip) * CosDeg(rake)) * SinDeg(strike)))) - ((SinDeg(2 *
      dip) * CosDeg(strike)) * sinM))))) + ((SinDeg(azm) * SinDeg(tko))
      * (((CosDeg(tko) * ((cosM * (((CosDeg(2 * dip) * CosDeg(strike)) *
      SinDeg(rake)) - ((CosDeg(dip) * CosDeg(rake)) * SinDeg(strike))))
      - ((SinDeg(2 * dip) * CosDeg(strike)) * sinM))) + ((CosDeg(azm) *
      SinDeg(tko)) * ((cosM * (((CosDeg(2 * strike) * CosDeg(rake)) *
      SinDeg(dip)) + (((SinDeg(2 * dip) * SinDeg(2 * strike)) *
      SinDeg(rake)) \div 2))) - ((SinDeg(2 * strike) * (SinDeg(dip) *
      SinDeg(dip))) * sinM)))) + ((SinDeg(azm) * SinDeg(tko)) * ((cosM *
      (((SinDeg(2 * strike) * CosDeg(rake)) * SinDeg(dip)) - ((SinDeg(2
      * dip) * (CosDeg(strike) * CosDeg(strike))) * SinDeg(rake)))) -
      (sinM * (PoissonTerm - ((2 * (CosDeg(strike) * CosDeg(strike))) *
      (SinDeg(dip) * SinDeg(dip)))))))))) - ((CosDeg(azm) * SinDeg(tko))
      * (((CosDeg(tko) * ((cosM * (((CosDeg(2 * dip) * SinDeg(rake)) *
      SinDeg(strike)) + ((CosDeg(dip) * CosDeg(rake)) *
      CosDeg(strike)))) - ((SinDeg(2 * dip) * sinM) * SinDeg(strike))))
      - ((SinDeg(azm) * SinDeg(tko)) * ((cosM * (((CosDeg(2 * strike) *
      CosDeg(rake)) * SinDeg(dip)) + (((SinDeg(2 * dip) * SinDeg(2 *
      strike)) * SinDeg(rake)) \div 2))) - ((SinDeg(2 * strike) *
      (SinDeg(dip) * SinDeg(dip))) * sinM)))) + ((CosDeg(azm) *
      SinDeg(tko)) * ((cosM * (((SinDeg(2 * dip) * SinDeg(rake)) *
      (SinDeg(strike) * SinDeg(strike))) + ((SinDeg(2 * strike) *
      CosDeg(rake)) * SinDeg(dip)))) + (sinM * (PoissonTerm - ((2 *
      (SinDeg(dip) * SinDeg(dip))) * (SinDeg(strike) *
      SinDeg(strike))))))))))

\* line 1222: G of the SH wave
G_SH(strike, dip, rake, azm, tko, sinM, cosM) ==
    (((CosDeg(tko) * ((CosDeg(azm) * ((cosM * (((CosDeg(2 * dip) *
      CosDeg(strike)) * SinDeg(rake)) - ((CosDeg(dip) * CosDeg(rake)) *
      SinDeg(strike)))) - ((SinDeg(2 * dip) * CosDeg(strike)) * sinM)))
      + (SinDeg(azm) * ((cosM * (((CosDeg(2 * dip) * SinDeg(rake)) *
      SinDeg(strike)) + ((CosDeg(dip) * CosDeg(rake)) *
      CosDeg(strike)))) - ((SinDeg(2 * dip) * sinM) *
      SinDeg(strike)))))) - ((SinDeg(azm) * SinDeg(tko)) * ((SinDeg(azm)
      * ((cosM * (((CosDeg(2 * strike) * CosDeg(rake)) * SinDeg(dip)) +
      (((SinDeg(2 * dip) * SinDeg(2 * strike)) * SinDeg(rake)) \div 2)))
      - ((SinDeg(2 * strike) * (SinDeg(dip) * SinDeg(dip))) * sinM))) -
      (CosDeg(azm) * ((cosM * (((SinDeg(2 * strike) * CosDeg(rake)) *
      SinDeg(dip)) - ((SinDeg(2 * dip) * (CosDeg(strike) *
      CosDeg(strike))) * SinDeg(rake)))) - (sinM * (PoissonTerm - ((2 *
      (CosDeg(strike) * CosDeg(strike))) * (SinDeg(dip) *
      SinDeg(dip)))))))))) + ((CosDeg(azm) * SinDeg(tko)) *
      ((SinDeg(azm) * ((cosM * (((SinDeg(2 * dip) * SinDeg(rake)) *
      (SinDeg(strike) * SinDeg(strike))) + ((SinDeg(2 * strike) *
      CosDeg(rake)) * SinDeg(dip)))) + (sinM * (PoissonTerm - ((2 *
      (SinDeg(dip) * SinDeg(dip))) * (SinDeg(strike) *
      SinDeg(strike))))))) + (CosDeg(azm) * ((cosM * (((CosDeg(2 *
      strike) * CosDeg(rake)) * SinDeg(dip)) + (((SinDeg(2 * dip) *
      SinDeg(2 * strike)) * SinDeg(rake)) \div 2))) - ((SinDeg(2 *
      strike) * (SinDeg(dip) * SinDeg(dip))) * sinM))))))

\* line 1225: G of the SV wave
G_SV(strike, dip, rake, azm, tko, sinM, cosM) ==
    ((((SinDeg(azm) * SinDeg(tko)) * ((((CosDeg(azm) * CosDeg(tko)) *
      ((cosM * (((CosDeg(2 * strike) * CosDeg(rake)) * SinDeg(dip)) +
      (((SinDeg(2 * dip) * SinDeg(2 * strike)) * SinDeg(rake)) \div 2)))
      - ((SinDeg(2 * strike) * (SinDeg(dip) * SinDeg(dip))) * sinM))) -
      (SinDeg(tko) * ((cosM * (((CosDeg(2 * dip) * CosDeg(strike)) *
      SinDeg(rake)) - ((CosDeg(dip) * CosDeg(rake)) * SinDeg(strike))))
      - ((SinDeg(2 * dip) * CosDeg(strike)) * sinM)))) + ((CosDeg(tko) *
      SinDeg(azm)) * ((cosM * (((SinDeg(2 * strike) * CosDeg(rake)) *
      SinDeg(dip)) - ((SinDeg(2 * dip) * (CosDeg(strike) *
      CosDeg(strike))) * SinDeg(rake)))) - (sinM * (PoissonTerm - ((2 *
      (CosDeg(strike) * CosDeg(strike))) * (SinDeg(dip) *
      SinDeg(dip))))))))) - (CosDeg(tko) * (((SinDeg(tko) * ((sinM * ((2
      * (CosDeg(dip) * CosDeg(dip))) - PoissonTerm)) + ((SinDeg(2 * dip)
      * cosM) * SinDeg(rake)))) + ((CosDeg(azm) * CosDeg(tko)) * ((cosM
      * (((CosDeg(2 * dip) * SinDeg(rake)) * SinDeg(strike)) +
      ((CosDeg(dip) * CosDeg(rake)) * CosDeg(strike)))) - ((SinDeg(2 *
      dip) * sinM) * SinDeg(strike))))) - ((CosDeg(tko) * SinDeg(azm)) *
      ((cosM * (((CosDeg(2 * dip) * CosDeg(strike)) * SinDeg(rake)) -
      ((CosDeg(dip) * CosDeg(rake)) * SinDeg(strike)))) - ((SinDeg(2 *
      dip) * CosDeg(strike)) * sinM)))))) + ((CosDeg(azm) * SinDeg(tko))
      * (((SinDeg(tko) * ((cosM * (((CosDeg(2 * dip) * SinDeg(rake)) *
      SinDeg(strike)) + ((CosDeg(dip) * CosDeg(rake)) *
      CosDeg(strike)))) - ((SinDeg(2 * dip) * sinM) * SinDeg(strike))))
      + ((CosDeg(tko) * SinDeg(azm)) * ((cosM * (((CosDeg(2 * strike) *
      CosDeg(rake)) * SinDeg(dip)) + (((SinDeg(2 * dip) * SinDeg(2 *
      strike)) * SinDeg(rake)) \div 2))) - ((SinDeg(2 * strike) *
      (SinDeg(dip) * SinDeg(dip))) * sinM)))) - ((CosDeg(azm) *
      CosDeg(tko)) * ((cosM * (((SinDeg(2 * dip) * SinDeg(rake)) *
      (SinDeg(strike) * SinDeg(strike))) + ((SinDeg(2 * strike) *
      CosDeg(rake)) * SinDeg(dip)))) + (sinM * (PoissonTerm - ((2 *
      (SinDeg(dip) * SinDeg(dip))) * (SinDeg(strike) *
      SinDeg(strike))))))))))

\* the conversion with x and y exchanged
spherical_to_cartesian_swapped(v) ==
    <<v[3] * SinDeg(v[2]) * SinDeg(v[1]), v[3] * SinDeg(v[2]) * CosDeg(v[1]),
      v[3] * CosDeg(v[2])>>

\* spherical_to_cartesian([AZM, TKO, G])
spherical_to_cartesian(v) ==
    <<v[3] * SinDeg(v[2]) * CosDeg(v[1]), v[3] * SinDeg(v[2]) * SinDeg(v[1]),
      v[3] * CosDeg(v[2])>>

VavPNames == Named({"P", "P-wave", "P wave"})

VavSHNames ==
    Named({"ST", "St", "SH", "Sh", "Sh-wave", "Sh wave", "SH-wave", "SH wave"})

VavSVNames == Named({"SV", "Sv", "Sv-wave", "Sv wave", "SV-wave", "SV wave"})

VavSNames == Named({"S", "S-wave", "S wave"})

\* the ratios divide the tuple one radpat call returns by another's
VavRatioNames ==
    Named({"S/P", "s/p", "P/S", "p/s", "SH/P", "sh/p", "SV/P", "sv/p",
           "SH/S", "sh/s", "SV/S", "sv/s"})

\* sin(MODE1) and cos(MODE1) for the percentages the model uses
SinMode1(DC) == CASE DC = RInt(100) -> 0 [] DC = RInt(0) -> 1

CosMode1(DC) == CASE DC = RInt(100) -> 1 [] DC = RInt(0) -> 0

\* lines 1218-1259 once mt_angles has returned [strike, dip, rake] and DC:
\* G by the wave, then G_cart; no branch binds G for an unknown name
G_cart(a, DC, wave, azm, tko) ==
    LET sinM == SinMode1(DC)
        cosM == CosMode1(DC)
        Gsh == G_SH(a[1], a[2], a[3], azm, tko, sinM, cosM)
        Gsv == G_SV(a[1], a[2], a[3], azm, tko, sinM, cosM)
    IN  CASE wave \in VavPNames ->
                Returned(spherical_to_cartesian(
                    <<azm, tko, G_P(a[1], a[2], a[3], azm, tko, sinM, cosM)>>))
          [] wave \in VavSHNames ->
                Returned(spherical_to_cartesian(<<azm, tko, Gsh>>))
          [] wave \in VavSVNames ->
                Returned(spherical_to_cartesian(<<azm, tko, Gsv>>))
          [] wave \in VavSNames ->
                Returned(spherical_to_cartesian(
                    <<azm, tko, ISqrt(Gsh * Gsh + Gsv * Gsv)>>))
          [] wave \in VavRatioNames ->
                Raised("TypeError", "unsupported operand type(s) for /")
          [] OTHER -> Raised("UnboundLocalError", "G")

Vavryeuk_radpat(mt, mopad, wave, azm, tko) ==
    IF mt_angles(mt, mopad, SCANNER).err # ""
    THEN mt_angles(mt, mopad, SCANNER)
    ELSE G_cart(mt_angles(mt, mopad, SCANNER).out[1],
                mt_angles(mt, mopad, SCANNER).out[2][1], wave, azm, tko)

RightAngles == {<<0, 90, 0>>, <<90, 0, 180>>, <<0, 90, 90>>}

VavryeukMts ==
    {NdArray(<<3>>, a) : a \in RightAngles}
        \cup {NdArray(<<6>>, Filled(6)), NdArray(<<5>>, Filled(5))}

\* answers of obspy's MomentTensor: a double couple and a tensile source
RightMoPaD ==
    {[fps |-> <<0, 90, 0, 270, 90, 180>>,
      percentages |-> <<RInt(100), RInt(0), RInt(0), RInt(100)>>],
     [fps |-> <<90, 0, 180, 0, 90, 90>>,
      percentages |-> <<RInt(0), RInt(100), RInt(0), RInt(100)>>]}

VavryeukWaves ==
    Named({"P", "SH", "SV", "S", "S/P", "sv/s", "Sq", "Rayleigh", ""})

VavryeukRadpat(mt, mopad, wave, azm, tko) ==
    /\ lib' = Library("Vavryeuk.radpat", SCANNER, <<mt, wave, <<azm, tko>> >>,
                      Vavryeuk_radpat(mt, mopad, wave, azm, tko))
    /\ UNCHANGED objects

(***************************************************************************)
(* mt_full.  len(mt) is the first entry of the shape and is not defined    *)
(* for an array without dimensions; six rows that are not numbers stack    *)
(* into an array of more than two dimensions.                              *)
(***************************************************************************)
FullMessage == "I/O dimensions: only 1x6 or 3x3 input supported."

\* [[mt[0], mt[3], mt[4]], [mt[3], mt[1], mt[5]], [mt[4], mt[5], mt[2]]]
Symmetric(d) == <<d[1], d[4], d[5], d[4], d[2], d[6], d[5], d[6], d[3]>>

mt_full(mt) ==
    IF mt.shape = <<>> THEN Raised("TypeError", "len() of unsized object")
    ELSE IF mt.shape = <<6>> THEN Returned(<<<<3, 3>>, Symmetric(mt.data)>>)
    ELSE IF mt.shape = <<3, 3>> THEN Returned(<<mt.shape, mt.data>>)
    ELSE Raised("Exception", FullMessage)

MtFull(mt) ==
    /\ lib' = Library("mt_full", SCANNER, <<mt>>, mt_full(mt))
    /\ UNCHANGED objects

(***************************************************************************)
(* The two coordinate conversions, each on one vector, on angles that are  *)
(* multiples of 90 degrees.                                                *)
(***************************************************************************)
Sphericals ==
    {<<az, tk, r>> : az \in {-90, 0, 90, 180, 270, 360}, tk \in {0, 90, 180},
                     r \in {-2, 0, 1, 3}}

Cartesians ==
    {spherical_to_cartesian(v) : v \in Sphericals} \cup Range(GlobePoints)

SphericalToCartesian(v) ==
    /\ lib' = Library("spherical_to_cartesian", SCANNER, <<v>>,
                      Returned(spherical_to_cartesian(v)))
    /\ UNCHANGED objects

CartesianToSpherical(v) ==
    /\ lib' = Library("cartesian_to_spherical", SCANNER, <<v>>,
                      Returned(cartesian_to_spherical(v)))
    /\ UNCHANGED objects

\* observation directions and their opposites
Opposite(g) == <<-g[1], -g[2], -g[3]>>

Directions == Range(GlobePoints) \cup {Opposite(g) : g \in Range(GlobePoints)}

(***************************************************************************)
(* Lines 2053-2057 of _data_init on their own: the waveforms at the        *)
(* directions sph bound to the grid directions atr.  The grids are the one *)
(* of a scanner of n_obs = 3 and one with a direction listed twice.        *)
(***************************************************************************)
data_indexes(atr, sph) == Array([i \in DOMAIN sph |-> Nearest(atr, sph[i])])

Grids ==
    {Array([k \in 1..3 |-> cartesian_to_spherical(Globe(3)[k])]),
     << <<0, 90, 1>>, <<90, 90, 1>>, <<0, 90, 1>> >>}

ObservedAt ==
    {cartesian_to_spherical(<<2, 2, 1>>), cartesian_to_spherical(<<-2, 2, -1>>),
     <<0, 90, 1>>, <<45, 90, 1>>, <<90, 0, 1>>}

DataIndexes(atr, sph) ==
    /\ lib' = Library("_data_init", SCANNER, <<atr, sph>>,
                      Returned(data_indexes(atr, sph)))
    /\ UNCHANGED objects

NextLib ==
    \/ \E atr \in Grids, n \in 1..2 :
          \E sph \in [1..n -> ObservedAt] : DataIndexes(atr, Array(sph))
    \/ \E mt \in MtArrays, mopad \in MoPaD, module \in Modules :
          MtAngles(mt, mopad, module)
    \/ \E g \in Range(GlobePoints), main \in Displacements,
          tiny \in Displacements, comp \in KnownComps \cup {None, C_X} :
          DispComponent(g, main, tiny, comp)
    \/ \E mt \in Mechanisms, wave \in AkiRichardsWaves,
          g \in Directions, unset \in Uninitialised :
          AkiRichardsRadpat(mt, wave, g, unset)
    \/ \E mt \in MtArrays \cup {NdArray(<<6, 1>>, Filled(6))} : MtFull(mt)
    \/ \E v \in Sphericals : SphericalToCartesian(v)
    \/ \E v \in Cartesians : CartesianToSpherical(v)
    \/ \E mt \in VavryeukMts, mopad \in RightMoPaD, wave \in VavryeukWaves,
          azm \in {0, 90}, tko \in {0, 90} :
          VavryeukRadpat(mt, mopad, wave, azm, tko)

SpecLib == Init /\ [][NextLib]_vars

(***************************************************************************)
(* What the claims speak of.                                               *)
(***************************************************************************)
\* the mechanism grid of an object
Grid(o) ==
    [Mt |-> o.source_mechanisms.Mt, fullMt |-> o.source_mechanisms.fullMt,
     Paxis |-> o.source_mechanisms.Paxis, Taxis |-> o.source_mechanisms.Taxis,
     PMt |-> o.source_mechanisms.PMt,
     modeled_amplitudes |-> o.modeled_amplitudes]

\* the scan result of an object
Results(o) ==
    [rms |-> o.source_mechanisms.rms, xcorr |-> o.source_mechanisms.xcorr,
     PdMt |-> o.source_mechanisms.PdMt, Pd |-> o.source_mechanisms.Pd,
     PMtd |-> o.source_mechanisms.PMtd,
     best |-> IF o.best_likelyhood = <<>> THEN <<>>
              ELSE <<BestMechanism(o), o.best_likelyhood[2]>>,
     centroid |-> o.centroid]

\* every cell has its mechanism, full tensor, axes and every amplitude field
Complete(o, cfg) ==
    /\ Len(o.source_mechanisms.Mt) = NCells(cfg)
    /\ \A i \in 1..NCells(cfg) :
          /\ o.source_mechanisms.Mt[i] = MechanismAt(cfg, i - 1)
          /\ o.source_mechanisms.fullMt[i] = get_M(MechanismAt(cfg, i - 1))
          /\ o.source_mechanisms.Paxis[i] = p_axis(MechanismAt(cfg, i - 1))
          /\ o.source_mechanisms.Taxis[i] = t_axis(MechanismAt(cfg, i - 1))
          /\ \A k \in DOMAIN WaveComps(cfg.waves, cfg.components, 1) :
                <<MechanismAt(cfg, i - 1),
                  WaveComps(cfg.waves, cfg.components, 1)[k][1],
                  WaveComps(cfg.waves, cfg.components, 1)[k][2]>>
                    \in DOMAIN o.modeled_amplitudes

\* process p has just made the call `op'
Made(p, op) == ops'[p] = ops[p] + 1 /\ last'[p].op = op

Saving(p) == pc[p] \in {"save_open", "save_sm", "save_ma"}

(***************************************************************************)
(* C1: every call of scan(data) on a constructed object, whether it        *)
(* returns or raises, leaves the mechanism grid as it was: Mt, fullMt, the *)
(* P and T axes, every amplitude field and the prior P(Mt).                *)
(***************************************************************************)
C1_ScanKeepsGrid ==
    [][\A p \in Procs : Made(p, "scan") => Grid(obj'[p]) = Grid(obj[p])]_vars

\* a scan has returned with new results on a grid that is as constructed
C1_Witness ==
    \E p \in Procs :
        /\ last[p].op = "scan" /\ last[p].ok /\ obj[p].scanned = 1
        /\ Grid(obj[p]) = Grid(asbuilt[p])
        /\ Results(obj[p]) # Results(asbuilt[p])

(***************************************************************************)
(* C2: a scan(d) that returns after any sequence of earlier scan() calls   *)
(* leaves the results scan(d) leaves on the object as the constructor      *)
(* returned it: rms, xcorr, P(d|Mt), P(Mt|d), P(d), the best solution and  *)
(* the centroid.                                                           *)
(***************************************************************************)
C2_ScanReenterable ==
    \A p \in Procs :
        (last[p].op = "scan" /\ last[p].onlyscans /\ last[p].ok)
            => /\ scan(asbuilt[p], last[p].data).err = ""
               /\ Results(obj[p]) = Results(scan(asbuilt[p], last[p].data).obj)

\* a second scan has returned on an object that was only scanned before
C2_Witness ==
    \E p \in Procs :
        /\ ops[p] = 2 /\ last[p].op = "scan" /\ last[p].onlyscans /\ last[p].ok
        /\ obj[p].source_mechanisms.rms # asbuilt[p].source_mechanisms.rms

(***************************************************************************)
(* C3: corrected_data(), PT_pdf(), and plot(), plot_PT() and demo() called *)
(* with scanned=1, leave the scan result of an object that has been        *)
(* scanned as it was.                                                      *)
(***************************************************************************)
C3_OnlyScanChangesResults ==
    [][\A p \in Procs :
          (/\ obj[p].scanned = 1
           /\ \/ Made(p, "corrected_data")
              \/ Made(p, "PT_pdf")
              \/ /\ Made(p, "plot") \/ Made(p, "plot_PT") \/ Made(p, "demo")
                 /\ last'[p].scanned = 1)
              => Results(obj'[p]) = Results(obj[p])]_vars

(***************************************************************************)
(* C4: an object that loads the cache entry of its configuration has the   *)
(* grid of the object whose fresh build with that configuration wrote the  *)
(* entry.                                                                  *)
(***************************************************************************)
C4_CacheRoundTrip ==
    \A p, q \in Procs :
        (origin[p] = "built" /\ origin[q] = "loaded" /\ args[p].cfg = args[q].cfg)
            => Grid(asbuilt[q]) = Grid(asbuilt[p])

\* a fresh build and a load with the same configuration have both returned
C4_Witness ==
    \E p, q \in Procs :
        /\ pc[p] = "ready" /\ origin[p] = "built"
        /\ pc[q] = "ready" /\ origin[q] = "loaded"
        /\ args[p].cfg = args[q].cfg
        /\ Complete(asbuilt[q], args[q].cfg)

(***************************************************************************)
(* C5: configurations that differ have different cache files, so no        *)
(* construction loads the grid a different configuration built.            *)
(***************************************************************************)
C5_OneFilePerConfiguration ==
    \A p, q \in Procs :
        (origin[p] = "loaded" /\ origin[q] = "built" /\ obj[p].file = obj[q].file)
            => args[p].cfg = args[q].cfg

(***************************************************************************)
(* C6: the constructor called with grid='reset' rebuilds the grid whether  *)
(* or not an entry exists; called with another grid when an entry exists,  *)
(* it loads the entry.                                                     *)
(***************************************************************************)
C6_OnlyResetInvalidates ==
    [][\A p \in Procs :
          (pc[p] = "test_exists" /\ pc'[p] # "test_exists")
              => IF args[p].grid = RESET THEN pc'[p] = "build"
                 ELSE fs[obj[p].file].state # "absent" => pc'[p] = "load"]_vars

(***************************************************************************)
(* C7: in sequential execution the cache is written only by a constructor  *)
(* whose grid is complete, a fresh build returns with its full result set  *)
(* in the entry, and a construction that fails writes nothing.             *)
(***************************************************************************)
C7_PersistWholeGrid ==
    [][\A p \in Procs :
          /\ (pc'[p] # pc[p] /\ fs' # fs)
                => Saving(p) /\ Complete(obj[p], args[p].cfg)
          /\ (pc[p] # "ready" /\ pc'[p] = "ready" /\ origin'[p] = "built")
                => /\ Loadable(fs'[obj[p].file])
                   /\ fs'[obj[p].file].sm = <<obj'[p].source_mechanisms>>
                   /\ fs'[obj[p].file].ma = <<obj'[p].modeled_amplitudes>>
                   /\ Complete(obj'[p], args[p].cfg)
          /\ (pc[p] # "failed" /\ pc'[p] = "failed") => fs' = fs]_vars

\* a fresh build has returned with its entry written, and another
\* construction has failed
C7_Witness ==
    \E p, q \in Procs :
        /\ pc[p] = "ready" /\ origin[p] = "built"
        /\ Loadable(fs[obj[p].file])
        /\ fs[obj[p].file].sm = <<asbuilt[p].source_mechanisms>>
        /\ pc[q] = "failed"

(***************************************************************************)
(* C8: of two constructions with the same cache key, none fails to load    *)
(* the file it found: a load sees a whole grid.                            *)
(***************************************************************************)
C8_LoadsSeeWholeGrids ==
    \A p, q \in Procs :
        (p # q /\ pc[p] # "new" /\ pc[q] # "new" /\ obj[p].file = obj[q].file)
            => ~(pc[p] = "failed" /\ err[p] = "IOError")

(***************************************************************************)
(* C9: a constructor called with n_dims other than 3 ends with a           *)
(* not-implemented error, without a grid and without touching the cache.   *)
(***************************************************************************)
C9_OtherDimsNotImplemented ==
    \A p \in Procs :
        (pc[p] # "new" /\ args[p].cfg.n_dims # 3)
            => /\ pc[p] = "failed"
               /\ err[p] = "NotImplementedError"
               /\ origin[p] = ""

(***************************************************************************)
(* C10: a constructor that finds a cache file it cannot load goes on to    *)
(* rebuild the grid.                                                       *)
(***************************************************************************)
C10_UnloadableEntryRebuilds ==
    [][\A p \in Procs :
          (pc[p] = "load" /\ pc'[p] # "load" /\ ~Loadable(fs[obj[p].file]))
              => pc'[p] = "build"]_vars

(***************************************************************************)
(* C11: scan(data) on a dataset without a usable waveform (no trace at     *)
(* all, or only traces without signal) raises, and leaves no degenerate    *)
(* result behind: rms, P(d|Mt) and P(Mt|d) are not all NaN, and the best   *)
(* solution and the centroid are the ones the object had before.           *)
(***************************************************************************)
Usable(id) ==
    {j \in DOMAIN Data(id).Stream : MaxAbs(Data(id).Stream[j].data) # 0}

AllNaN(s) == s # <<>> /\ NotNaN(s) = {}

C11_NoWaveformFailsFast ==
    [][\A p \in Procs :
          (Made(p, "scan") /\ Usable(last'[p].data) = {})
              => /\ ~last'[p].ok
                 /\ ~AllNaN(obj'[p].source_mechanisms.rms)
                 /\ ~AllNaN(obj'[p].source_mechanisms.PdMt)
                 /\ ~AllNaN(obj'[p].source_mechanisms.PMtd)
                 /\ obj'[p].best_likelyhood = obj[p].best_likelyhood
                 /\ obj'[p].centroid = obj[p].centroid]_vars

\* the last call on p's object was a scan(), and it returned
Scanned(p) == last[p].op = "scan" /\ last[p].ok

LowestPrior(p) == NanMin(obj[p].source_mechanisms.PMt)

HighestLikelihood(p) == NanMax(obj[p].source_mechanisms.PdMt)

C14_BestIsArgmax ==
    \A p \in Procs :
        Scanned(p)
            => /\ obj[p].best_likelyhood[1] \in DOMAIN obj[p].source_mechanisms.Mt
               /\ Len(BestMechanism(obj[p])) = 3
               /\ obj[p].best_likelyhood[2]
                     = obj[p].source_mechanisms.PMtd[obj[p].best_likelyhood[1]]
               /\ \A i \in DOMAIN obj[p].source_mechanisms.PMtd :
                     RLeq(obj[p].source_mechanisms.PMtd[i],
                          obj[p].best_likelyhood[2])

\* a scan has returned whose best solution is not the first row, with a
\* P(Mt|d) above that of another row
C14_Witness ==
    \E p \in Procs :
        /\ Scanned(p)
        /\ obj[p].best_likelyhood[1] > 1
        /\ \E i \in DOMAIN obj[p].source_mechanisms.PMtd :
              RLess(obj[p].source_mechanisms.PMtd[i], obj[p].best_likelyhood[2])

\* the weights of the centroid, from the P(Mt|d) an object holds: negative
\* ones zeroed, then those under mean + std zeroed
CentroidWeights(o) ==
    CutAt(Weights(o.source_mechanisms.PMtd),
          NanMean(Weights(o.source_mechanisms.PMtd)))

\* component c of the probability-weighted average of the full tensors
WeightedAverage(o, w, c) ==
    RDiv(NanSum([i \in DOMAIN w |->
                    RMul(w[i], RInt(o.source_mechanisms.fullMt[i][c]))]),
         NanSum(w))

(***************************************************************************)
(* C15: the centroid tensor a scan() leaves has six components, none of    *)
(* them NaN: a component is the probability-weighted average of the full   *)
(* tensors where that is defined, and the positive constant 1e-11, not     *)
(* zero, where it is not (0/0).                                            *)
(***************************************************************************)
C15_CentroidHasNoNaN ==
    \A p \in Procs :
        obj[p].centroid # <<>>
            => /\ Len(obj[p].centroid[1]) = 6
               /\ \A c \in 1..6 :
                     /\ ~IsNaN(obj[p].centroid[1][c])
                     /\ obj[p].centroid[1][c] # RInt(0)
                           \/ ~IsNaN(WeightedAverage(obj[p], CentroidWeights(obj[p]), c))
                     /\ IF IsNaN(WeightedAverage(obj[p], CentroidWeights(obj[p]), c))
                        THEN obj[p].centroid[1][c] = Tiny
                        ELSE obj[p].centroid[1][c]
                               = WeightedAverage(obj[p], CentroidWeights(obj[p]), c)

\* a scan has returned with a centroid that has a substituted component
C15_Witness ==
    \E p \in Procs :
        /\ Scanned(p)
        /\ \E c \in 1..6 :
              /\ IsNaN(WeightedAverage(obj[p], CentroidWeights(obj[p]), c))
              /\ obj[p].centroid[1][c] = Tiny

\* sample k of waveform j of a dataset, normalized to unit peak amplitude
UnitPeak(data, j, k) ==
    RDiv(RInt(data.Stream[j].data[k]), RInt(MaxAbs(data.Stream[j].data)))

\* the amplitude precomputed for mechanism row i, at the wave type and
\* component of waveform j and at the grid direction bound to it
Predicted(o, data, i, j) ==
    o.modeled_amplitudes[<<o.source_mechanisms.Mt[i], data.types[j],
                           <<Last(data.Stream[j].channel)>> >>][o.data_indexes[j]]

\* the stack for mechanism row i: every waveform tapered and flipped to
\* the predicted sign, summed over the waveforms
FlippedStack(o, data, i) ==
    [k \in 1..MaxLen(data.Stream) |->
        RSum([j \in DOMAIN data.Stream |->
            RMul(RInt(Sign(Predicted(o, data, i, j))),
                 RMul(UnitPeak(data, j, k), o.data_taperwindows[j][k]))])]

(***************************************************************************)
(* C16: after a scan(data) that returned, for every mechanism row i        *)
(*     rms[i] = (sum_k stack_i[k]^2) * sign(sum_k stack_i[k]),             *)
(* stack_i being the sum over the waveforms j of                           *)
(*     sign(A[i, j]) * w_j * taper_j.                                      *)
(***************************************************************************)
C16_SignedStackPower ==
    \A p \in Procs :
        Scanned(p)
            => \A i \in DOMAIN obj[p].source_mechanisms.rms :
                  obj[p].source_mechanisms.rms[i]
                    = RMul(RSum([k \in 1..MaxLen(Data(obj[p].data).Stream) |->
                                  RMul(FlippedStack(obj[p], Data(obj[p].data), i)[k],
                                       FlippedStack(obj[p], Data(obj[p].data), i)[k])]),
                           RSign(RSum(FlippedStack(obj[p], Data(obj[p].data), i))))

\* a scan of two waveforms has returned with scores of both signs
C16_Witness ==
    \E p \in Procs :
        /\ Scanned(p)
        /\ Len(Data(obj[p].data).Stream) = 2
        /\ \E i, j \in DOMAIN obj[p].source_mechanisms.rms :
              /\ RLess(obj[p].source_mechanisms.rms[i], RInt(0))
              /\ RLess(RInt(0), obj[p].source_mechanisms.rms[j])

(***************************************************************************)
(* C18: a constructed object, whether its grid was built or loaded and     *)
(* whatever calls were made on it, has a prior P(Mt) for every cell of the *)
(* grid, and each is 2/N, N being the number of cells.                     *)
(***************************************************************************)
C18_PriorIsTwoOverN ==
    \A p \in Procs :
        pc[p] = "ready"
            => /\ Len(obj[p].source_mechanisms.PMt) = NCells(args[p].cfg)
               /\ Len(obj[p].source_mechanisms.Mt) = NCells(args[p].cfg)
               /\ \A i \in DOMAIN obj[p].source_mechanisms.PMt :
                     obj[p].source_mechanisms.PMt[i]
                        = RDiv(RInt(2), RInt(NCells(args[p].cfg)))

\* one object has loaded its grid while another has built its own
C18_Witness ==
    \E p \in Procs :
        /\ pc[p] = "ready" /\ origin[p] = "loaded"
        /\ obj[p].source_mechanisms.PMt[1]
              = RDiv(RInt(2), RInt(Len(obj[p].source_mechanisms.Mt)))
        /\ \E q \in Procs \ {p} : pc[q] = "ready" /\ origin[q] = "built"

\* the wave names an engine recognises
Recognised(fn) ==
    IF fn = "Aki_Richards.radpat"
    THEN PNames \cup SNames \cup SvNames \cup SqNames \cup StNames
    ELSE VavPNames \cup VavSHNames \cup VavSVNames \cup VavSNames
            \cup VavRatioNames

\* the last call was a forward engine's, on a mechanism it accepts, with a
\* wave name it does not recognise
UnknownWaveCall ==
    /\ lib.fn \in {"Aki_Richards.radpat", "Vavryeuk.radpat"}
    /\ lib.args[2] \notin Recognised(lib.fn)
    /\ lib.msg # DimensionMessage

\* C12: a call of Aki_Richards.radpat or of Vavryeuk.radpat with a wave name
\* that is none of the recognised ones raises an error made for the
\* unsupported option (an Exception raised on purpose, as mt_angles raises
\* its dimension error) and returns no displacement array.
C12_UnknownWaveRaises ==
    UnknownWaveCall => lib.out = <<>> /\ lib.err = "Exception"

\* the sign of a number given as <<part of ordinary size, part of size 1e-11>>
SignOf(pair) == IF pair[1] # 0 THEN Sign(pair[1]) ELSE Sign(pair[2])

\* the dot product of the displacement main + tiny * 1e-11 of a
\* disp_component call with the direction the call chose
DotProduct(g, main, tiny, comp) ==
    IF comp = None THEN <<Dot(main, main), Dot(tiny, tiny)>>
    ELSE <<Dot(main, vector_normal(g, comp)), Dot(tiny, vector_normal(g, comp))>>

\* C17: the sign of the amplitude disp_component returns is the sign of the
\* dot product of the displacement and the chosen polarization direction;
\* where the dot product is exactly zero the amplitude is not negative.
C17_SignFollowsDotProduct ==
    (lib.fn = "disp_component" /\ lib.err = "")
        => LET dot == DotProduct(lib.args[1], lib.args[2], lib.args[3], lib.args[4])
           IN  IF SignOf(dot) = 0 THEN SignOf(lib.out) >= 0
               ELSE SignOf(lib.out) = SignOf(dot)

\* C19: mt_angles of a 3-vector [strike, dip, rake] returns the same three
\* angles with DC = 100, CLVD = 0, iso = 0 and deviatoric = 100.
C19_AnglesArePureDoubleCouple ==
    (lib.fn = "mt_angles" /\ lib.args[1].shape = <<3>>)
        => /\ lib.err = ""
           /\ Len(lib.out) = 2
           /\ lib.out[1] = lib.args[1].data
           /\ lib.out[2] = <<RInt(100), RInt(0), RInt(0), RInt(100)>>

C19_Witness ==
    /\ lib.fn = "mt_angles"
    /\ lib.args[1] = NdArray(<<3>>, <<200, 45, -90>>)
    /\ lib.out[1] = <<200, 45, -90>>
    /\ lib.out[2][1] = RInt(100)

AcceptedShapes == {<<3>>, <<2, 3>>, <<4>>, <<6>>, <<3, 3>>}

\* C20: mt_angles returns [[strike, dip, rake], [DC, CLVD, iso, devi]] for
\* an input of shape (3,), (2,3), (4,), (6,) or (3,3); for any other shape
\* it returns nothing and raises the error whose message names 1x3, 2x3,
\* 1x4, 1x6 and 3x3.
C20_ExactlyFiveShapes ==
    lib.fn = "mt_angles"
        => IF lib.args[1].shape \in AcceptedShapes
           THEN /\ lib.err = ""
                /\ Len(lib.out) = 2
                /\ Len(lib.out[1]) = 3
                /\ Len(lib.out[2]) = 4
           ELSE /\ lib.out = <<>>
                /\ lib.err = "Exception"
                /\ lib.msg = "I/O dimensions: only [1|2]x3, 1x[4|6] and 3x3 inputs supported."

C20_Witness ==
    /\ lib.fn = "mt_angles"
    /\ lib.args[1].shape = <<1, 3>>
    /\ lib.out = <<>>
    /\ lib.err = "Exception"

\* C21: mt_full returns the symmetric 3x3 matrix of a 6-vector and a 3x3
\* input as it is; for an input of any other shape it returns nothing and
\* raises the dimension error.
C21_FullTensorOrDimensionError ==
    lib.fn = "mt_full"
        => LET shape == lib.args[1].shape
               d == lib.args[1].data
           IN  CASE shape = <<6>> ->
                       /\ lib.err = ""
                       /\ lib.out = << <<3, 3>>,
                                       <<d[1], d[4], d[5], d[4], d[2], d[6],
                                         d[5], d[6], d[3]>> >>
                 [] shape = <<3, 3>> ->
                       lib.err = "" /\ lib.out = <<shape, d>>
                 [] OTHER ->
                       /\ lib.out = <<>>
                       /\ lib.err = "Exception"
                       /\ lib.msg = "I/O dimensions: only 1x6 or 3x3 input supported."

\* the two component fields a ratio name stands for
RatioOf(wave) ==
    CASE wave \in Named({"S/P", "s/p"}) -> <<"S", "P">>
      [] wave \in Named({"P/S", "p/s"}) -> <<"P", "S">>
      [] wave \in Named({"SH/P", "sh/p"}) -> <<"SH", "P">>
      [] wave \in Named({"SV/P", "sv/p"}) -> <<"SV", "P">>
      [] wave \in Named({"SH/S", "sh/s"}) -> <<"SH", "S">>
      [] wave \in Named({"SV/S", "sv/s"}) -> <<"SV", "S">>

\* the quotient, entry by entry, of two fields of whole numbers
Quotient(n, d) == <<Frac(n[1], d[1]), Frac(n[2], d[2]), Frac(n[3], d[3])>>

\* C22: Vavryeuk.radpat with a ratio wave type returns, without raising,
\* the quotient of the two named component fields at the same observation
\* direction (checked entry by entry for a mechanism given by its angles).
C22_RatioIsQuotient ==
    (/\ lib.fn = "Vavryeuk.radpat"
     /\ lib.args[2] \in VavRatioNames
     /\ lib.msg # DimensionMessage)
        => /\ lib.err = ""
           /\ Len(lib.out) = 3
           /\ (lib.args[1].shape = <<3>>
                 => lib.out =
                      Quotient(G_cart(lib.args[1].data, RInt(100),
                                      <<RatioOf(lib.args[2])[1]>>,
                                      lib.args[3][1], lib.args[3][2]).out,
                               G_cart(lib.args[1].data, RInt(100),
                                      <<RatioOf(lib.args[2])[2]>>,
                                      lib.args[3][1], lib.args[3][2]).out))

\* C23 as stated: every (azimuth, polar angle, radius) with the polar angle
\* strictly between 0 and 180 degrees and a nonzero radius is recovered by
\* cartesian_to_spherical from what spherical_to_cartesian made of it.
C23_RoundTrip ==
    (/\ lib.fn = "spherical_to_cartesian"
     /\ lib.args[1][2] > 0 /\ lib.args[1][2] < 180
     /\ lib.args[1][3] # 0)
        => cartesian_to_spherical(lib.out) = lib.args[1]

\* C23: the same for the azimuths arctan2 can return, above -180 and up to
\* 180 degrees, and for a positive radius.
C23_RoundTripPrincipal ==
    (/\ lib.fn = "spherical_to_cartesian"
     /\ lib.args[1][2] > 0 /\ lib.args[1][2] < 180
     /\ lib.args[1][1] > -180 /\ lib.args[1][1] <= 180
     /\ lib.args[1][3] > 0)
        => cartesian_to_spherical(lib.out) = lib.args[1]

C23_Witness ==
    /\ lib.fn = "spherical_to_cartesian"
    /\ lib.args[1] = <<-90, 90, 3>>
    /\ lib.out = <<0, -3, 0>>
    /\ cartesian_to_spherical(lib.out) = <<-90, 90, 3>>

\* C24: for a double couple, the P displacement of Aki_Richards.radpat at
\* the direction opposite to g is the negative of its displacement at g.
C24_PointAntisymmetry ==
    (lib.fn = "Aki_Richards.radpat" /\ lib.args[2] \in PNames)
        => Aki_Richards_radpat(get_M(lib.args[1]), lib.args[2],
                               Opposite(lib.args[3]), <<0, 0, 0>>).out
              = Opposite(lib.out)

C24_Witness ==
    /\ lib.fn = "Aki_Richards.radpat"
    /\ lib.args[2] \in PNames
    /\ lib.out # <<0, 0, 0>>
    /\ lib.args[3] = <<2, 1, 2>>

\* the last call of p was scan(), whether it returned or raised
ScanCalled(p) == pc[p] = "ready" /\ last[p].op = "scan"

\* the last call of p was a scan() that got through its loop over the
\* mechanisms and line 2140: it returned, or raised at line 2450
Scored2140(p) == ScanCalled(p) /\ err[p] \in {"", "ValueError"}

TaperedWavelet(o, j) == VMul(o.data_wavelets[j], o.data_taperwindows[j])

\* the running stack after the first w waveforms, added with the signs e
RECURSIVE RunningStack(_, _, _)
RunningStack(o, e, w) ==
    IF w = 0 THEN Zeros(Len(o.opt_stack))
    ELSE VAdd(RunningStack(o, e, w - 1),
              VScale(RInt(e[w]), TaperedWavelet(o, w)))

\* the running stack had waveform w been added with the other sign
OtherStack(o, e, w) ==
    VAdd(RunningStack(o, e, w - 1), VScale(RInt(-e[w]), TaperedWavelet(o, w)))

Polarities(o) == [DOMAIN o.data_wavelets -> {1, -1}]

\* _data_init has bound a dataset with waveforms and stored its stacks
StacksStored(p) ==
    /\ ScanCalled(p)
    /\ err[p] # "UnboundLocalError"
    /\ obj[p].data_wavelets # <<>>

\* C26 as stated: the optimal stack is the sum of the tapered waveforms in
\* dataset order, each with the sign for which the energy of the running
\* stack after the addition is not above that of the other sign.
C26_GreedyLeastEnergy ==
    \A p \in Procs :
        StacksStored(p)
            => \E e \in Polarities(obj[p]) :
                  /\ obj[p].opt_stack = RunningStack(obj[p], e, Len(e))
                  /\ \A w \in DOMAIN e :
                        ~RLess(Power(OtherStack(obj[p], e, w)),
                               Power(RunningStack(obj[p], e, w)))

\* C26: the optimal stack is the sum of the tapered waveforms in dataset
\* order, each with the sign for which the energy of the running stack
\* after the addition is the larger: -1 where the energy with -1 is above
\* the energy with +1, and +1 otherwise.
C26_GreedyMostEnergy ==
    \A p \in Procs :
        StacksStored(p)
            => \E e \in Polarities(obj[p]) :
                  /\ obj[p].opt_stack = RunningStack(obj[p], e, Len(e))
                  /\ \A w \in DOMAIN e :
                        e[w] = -1 <=>
                            RLess(Power(VAdd(RunningStack(obj[p], e, w - 1),
                                             TaperedWavelet(obj[p], w))),
                                  Power(VAdd(RunningStack(obj[p], e, w - 1),
                                             VScale(RInt(-1),
                                                    TaperedWavelet(obj[p], w)))))

\* a second waveform was added flipped, which gave the larger energy
C26_Witness ==
    \E p \in Procs :
        /\ StacksStored(p)
        /\ Len(obj[p].data_wavelets) = 2
        /\ obj[p].opt_stack =
              VAdd(TaperedWavelet(obj[p], 1),
                   VScale(RInt(-1), TaperedWavelet(obj[p], 2)))
        /\ RLess(Power(VAdd(TaperedWavelet(obj[p], 1), TaperedWavelet(obj[p], 2))),
                 Power(obj[p].opt_stack))

\* PT_pdf has run on the object of p as the last call and returned
SurfaceMade(p) ==
    /\ pc[p] = "ready"
    /\ last[p].op \in {"PT_pdf", "plot_PT"}
    /\ last[p].ok
    /\ obj[p].pdf # <<>>

(***************************************************************************)
(* C27: after PT_pdf() the largest value of the P/T-axis surface equals    *)
(* the largest P(Mt|d) of the grid, and no value of the surface is above   *)
(* it.                                                                     *)
(***************************************************************************)
C27_SurfacePeakIsBestProbability ==
    \A p \in Procs :
        SurfaceMade(p) =>
            /\ np_max(obj[p].pdf[1].PT) = np_max(obj[p].source_mechanisms.PMtd)
            /\ \A n \in DOMAIN obj[p].pdf[1].PT :
                  RLeq(obj[p].pdf[1].PT[n], np_max(obj[p].source_mechanisms.PMtd))

(***************************************************************************)
(* C28: _data_init binds every waveform to exactly one index of the grid   *)
(* of directions: an index within the grid, of a direction at the least    *)
(* Euclidean distance in (azimuth, polar angle, radius) from the direction *)
(* of the waveform, and the lowest such index when several directions are  *)
(* at that distance.                                                       *)
(***************************************************************************)
IndexesBound == lib.fn = "_data_init" /\ lib.err = ""

C28_BoundToNearestIndex ==
    IndexesBound =>
        LET atr == lib.args[1]
            sph == lib.args[2]
        IN  /\ DOMAIN lib.out = DOMAIN sph
            /\ \A i \in DOMAIN sph :
                  /\ lib.out[i] \in DOMAIN atr
                  /\ \A j \in DOMAIN atr :
                        SqDist(sph[i], atr[lib.out[i]]) <= SqDist(sph[i], atr[j])
                  /\ \A j \in 1..(lib.out[i] - 1) :
                        SqDist(sph[i], atr[lib.out[i]]) < SqDist(sph[i], atr[j])

\* a waveform with two directions at the least distance and one further away
C28_Witness ==
    /\ IndexesBound
    /\ \E i \in DOMAIN lib.args[2] :
          /\ \E j \in (lib.out[i] + 1)..Len(lib.args[1]) :
                SqDist(lib.args[2][i], lib.args[1][j])
                    = SqDist(lib.args[2][i], lib.args[1][lib.out[i]])
          /\ \E j \in DOMAIN lib.args[1] :
                SqDist(lib.args[2][i], lib.args[1][j])
                    > SqDist(lib.args[2][i], lib.args[1][lib.out[i]])

\* the same of the indexes a scan stored on the object
ScanBindsNearest ==
    \A p \in Procs :
        ScanCalled(p) /\ obj[p].data_indexes # <<>> =>
            /\ DOMAIN obj[p].data_indexes = DOMAIN Data(obj[p].data).Stream
            /\ \A i \in DOMAIN obj[p].data_indexes :
                  /\ obj[p].data_indexes[i] \in DOMAIN obj[p].atr
                  /\ \A j \in DOMAIN obj[p].atr :
                        SqDist(Data(obj[p].data).sph[i],
                               obj[p].atr[obj[p].data_indexes[i]])
                            <= SqDist(Data(obj[p].data).sph[i], obj[p].atr[j])

ScanBindsTwoDirections ==
    \E p \in Procs :
        /\ ScanCalled(p)
        /\ \E i, k \in DOMAIN obj[p].data_indexes :
              obj[p].data_indexes[i] # obj[p].data_indexes[k]

(***************************************************************************)
(* C29: whenever scanned = 1 the stored results are those of the dataset   *)
(* held in self.data: on an object on which only scan() was called, rms,   *)
(* xcorr, P(d|Mt), P(d), P(Mt|d), the best solution and the centroid are   *)
(* what scan(self.data) leaves on the object as constructed.  A scan that  *)
(* fails part-way does not leave scanned = 1 with results of another       *)
(* dataset, or of two.                                                     *)
(***************************************************************************)
C29_ScannedResultsAreOfData ==
    \A p \in Procs :
        (pc[p] = "ready" /\ obj[p].scanned = 1 /\ last[p].onlyscans)
            => /\ scan(asbuilt[p], obj[p].data).err = ""
               /\ Results(obj[p]) = Results(scan(asbuilt[p], obj[p].data).obj)

\* every row of Mt is a key of modeled_amplitudes with every configured
\* wave and component
RowsAreKeys(o) ==
    \A i \in DOMAIN o.source_mechanisms.Mt :
        \A k \in DOMAIN WaveComps(o.waves, o.components, 1) :
            <<o.source_mechanisms.Mt[i],
              WaveComps(o.waves, o.components, 1)[k][1],
              WaveComps(o.waves, o.components, 1)[k][2]>>
                \in DOMAIN o.modeled_amplitudes

(***************************************************************************)
(* C30: on a constructed object, before and after any sequence of scan(),  *)
(* corrected_data(), PT_pdf(), plot(), plot_PT() and demo() calls, every   *)
(* row of Mt is a key of modeled_amplitudes for every configured (wave,    *)
(* component) pair.                                                        *)
(***************************************************************************)
C30_EveryRowIsAKey ==
    \A p \in Procs : pc[p] = "ready" => RowsAreKeys(obj[p])

====
